---- MODULE Spec2Model ----
(***************************************************************************)
(* Export pipeline of gitma_canspin (_export_annotations.py, canspin.py):  *)
(*   create_basic_token_tsv      tokens of the text -> basic token table   *)
(*   create_annotated_token_tsv  basic token table + annotations           *)
(*                               -> annotated token table (IOB2 tags)      *)
(*   create_annotated_tei        annotated token table -> TEI document     *)
(*   AnnotationExporter.run      the activated steps, one after another    *)
(* A text is a sequence of characters, a table a sequence of rows, a file  *)
(* that was never written the empty sequence.                              *)
(***************************************************************************)
EXTENDS Integers, Sequences, FiniteSets, TLC

(* ------------------------------ bounds -------------------------------- *)
MaxTokens == 3          \* tokens of a text
MaxPos == 3             \* largest character offset of a segment
MaxBorder == 1          \* largest text_borders[0]

(* ---------------------------- characters ------------------------------ *)
newline == "\n"
backslash == "\\"

\* the token texts the tokenizer may deliver: a word, a line break, and the
\* two characters backslash, n
TokenTexts == { <<"a">>, <<newline>>, <<backslash, "n">> }
Classes == {"X", "Y"}
IdPool == <<"A1", "A2">>
\* the collections taken: one annotation of one or of two segments, or two
\* annotations of one segment each
AnnotationShapes == { <<1>>, <<2>>, <<1, 1>> }

VARIABLES pc, doc, ac, text_borders, use_all_text_selection_segments,
          basic_token_table, annotated_token_table,
          insert_paragraphs, body_el, annotated_tei, steps, executed,
          previous_run, input_length, window, selected,
          tsv_filepath_list, loaded, tsv_annotations, settings, result,
          calculated, outcome, logged

\* the state of an export, of a selection by a window, and of an analyzer
export_vars == <<pc, doc, ac, text_borders, use_all_text_selection_segments,
                 basic_token_table, annotated_token_table,
                 insert_paragraphs, body_el, annotated_tei, steps, executed,
                 previous_run>>

window_vars == <<input_length, window, selected>>

analyzer_vars == <<tsv_filepath_list, loaded, tsv_annotations, settings, result,
                   calculated, outcome, logged>>

vars == <<export_vars, window_vars, analyzer_vars>>

\* an analyzer that was handed nothing and was asked nothing
no_analysis ==
    /\ tsv_filepath_list = <<>>
    /\ loaded = [state |-> "pending"]
    /\ tsv_annotations = <<>>
    /\ settings = <<>>
    /\ result = <<>>
    /\ calculated = <<>>
    /\ outcome = "pending"
    /\ logged = {}

(* ------------------------- AnnotationExporter.run --------------------- *)
\* self.steps: the entries of the steps dictionary in their order
default_steps ==
    << [name |-> "create_basic_token_tsv", activated |-> TRUE],
       [name |-> "create_annotated_token_tsv", activated |-> TRUE],
       [name |-> "create_annotated_tei", activated |-> TRUE] >>

\* [step_name for step_name, step_settings in self.steps.items()
\*  if step_settings['activated']]
activated_steps(step_list) ==
    LET sel == SelectSeq(step_list, LAMBDA st : st.activated)
    IN  [ i \in 1..Len(sel) |-> sel[i].name ]

\* the step the loop of run invokes next: the loop takes the activated
\* steps in their order and ends with the first step that raises
next_step ==
    IF pc # "failed" /\ Len(executed) < Len(activated_steps(steps))
    THEN activated_steps(steps)[Len(executed) + 1]
    ELSE "none"

(* ------------------------- the tokenizer's output --------------------- *)
\* get_spacy_df: rows (token.i, token.idx, token.text); token.i counts from
\* 0, token.idx is the offset of the token in the (cut) text. The tokens of
\* the texts taken follow one another without a separator.
RECURSIVE Pointer(_, _)
Pointer(texts, i) ==
    IF i = 1 THEN 0 ELSE Pointer(texts, i - 1) + Len(texts[i - 1])

get_spacy_df(texts) ==
    [ i \in 1..Len(texts) |->
        [Token_ID |-> i - 1, Text_Pointer |-> Pointer(texts, i), Token |-> texts[i]] ]

SpacyDfs ==
    UNION { { get_spacy_df(texts) : texts \in [1..n -> TokenTexts] } : n \in 1..MaxTokens }

(* --------------------------- the annotations -------------------------- *)
\* Annotation.data['target']['items']: the text selection segments, in
\* order, none overlapping another; start <= end.
Segment == { s \in [start : 0..MaxPos, end : 0..MaxPos] : s.start <= s.end }

ItemLists(k) ==
    { items \in [1..k -> Segment] :
        \A i \in 1..(k - 1) : items[i].end <= items[i + 1].start }

AnnotationLists ==
    UNION { { [ i \in 1..Len(shape) |->
                  [id |-> IdPool[i], tag |-> tags[i], items |-> its[i]] ] :
              tags \in [1..Len(shape) -> Classes],
              its \in { f \in [1..Len(shape) -> ItemLists(1) \cup ItemLists(2)] :
                          \A i \in 1..Len(shape) : Len(f[i]) = shape[i] } } :
            shape \in AnnotationShapes }

(* ------------------------ create_basic_token_tsv ---------------------- *)
\* x.replace('\n', '\\n'): every newline character becomes backslash, n
RECURSIVE replace(_)
replace(x) ==
    IF x = <<>> THEN <<>>
    ELSE (IF Head(x) = newline THEN <<backslash, "n">> ELSE <<Head(x)>>) \o replace(Tail(x))

\* as to_csv_basic, but opening the file for appending
to_csv_basic_appending(lemma_df) ==
    basic_token_table \o
    [ i \in 1..Len(lemma_df) |->
        [Token_ID |-> lemma_df[i].Token_ID,
         Text_Pointer |-> lemma_df[i].Text_Pointer,
         Token |-> replace(lemma_df[i].Token)] ]

\* lemma_df['Token'].apply(...) followed by to_csv: the rows as stored
to_csv_basic(lemma_df) ==
    [ i \in 1..Len(lemma_df) |->
        [Token_ID |-> lemma_df[i].Token_ID,
         Text_Pointer |-> lemma_df[i].Text_Pointer,
         Token |-> replace(lemma_df[i].Token)] ]

\* pd.read_csv of a stored table: the stored cells, not unescaped
read_csv(table) == table

create_basic_token_tsv ==
    /\ next_step = "create_basic_token_tsv"
    /\ executed' = Append(executed, "create_basic_token_tsv")
    /\ basic_token_table' = to_csv_basic(doc)
    /\ pc' = "basic"
    /\ UNCHANGED <<doc, ac, text_borders, use_all_text_selection_segments,
                   annotated_token_table, insert_paragraphs, body_el,
                   annotated_tei, steps, previous_run>>
    /\ UNCHANGED <<window_vars, analyzer_vars>>

(* ---------------------- create_annotated_token_tsv -------------------- *)
O == <<"O">>
B(tag) == <<"B-", tag>>
I(tag) == <<"I-", tag>>

\* ac.df, one row per annotation in the order of ac.annotations; the row's
\* name is the annotation's position. start_point and end_point are those of
\* the Annotation: start of its first segment, end of its last segment.
ac_df(annotation_list) ==
    [ i \in 1..Len(annotation_list) |->
        [name |-> i,
         start_point |-> annotation_list[i].items[1].start,
         end_point |-> annotation_list[i].items[Len(annotation_list[i].items)].end,
         tag |-> annotation_list[i].tag] ]

\* DataFrame.explode(['start_point', 'end_point']) after every annotation's
\* cells were set to the lists of its segments' starts and ends: one row per
\* segment, annotation after annotation, each keeping the annotation's name
RECURSIVE explode(_, _)
explode(annotation_list, i) ==
    IF i > Len(annotation_list) THEN <<>>
    ELSE [ k \in 1..Len(annotation_list[i].items) |->
             [name |-> i,
              start_point |-> annotation_list[i].items[k].start,
              end_point |-> annotation_list[i].items[k].end,
              tag |-> annotation_list[i].tag] ]
         \o explode(annotation_list, i + 1)

\* as ac_data_df, the segments never exploded
ac_data_df_bounds_only(annotation_list, use_all) == ac_df(annotation_list)

\* ac_data_df as matched against the tokens, for either processing mode
ac_data_df(annotation_list, use_all) ==
    IF use_all THEN explode(annotation_list, 1) ELSE ac_df(annotation_list)

\* '\\n' in row['Token']
has_linebreak(token) ==
    \E i \in 1..(Len(token) - 1) : token[i] = backslash /\ token[i + 1] = "n"

\* as filtered_row_df_beginning, line-break tokens not excluded
filtered_row_df_beginning_any_token(df, row, border) ==
    SelectSeq(df, LAMBDA r : r.start_point = row.Text_Pointer + border)

filtered_row_df_beginning(df, row, border) ==
    SelectSeq(df, LAMBDA r : /\ r.start_point = row.Text_Pointer + border
                             /\ ~has_linebreak(row.Token))

\* as filtered_row_df_inner, the segment's end included
filtered_row_df_inner_closed_end(df, row, border) ==
    SelectSeq(df, LAMBDA r : /\ r.start_point < row.Text_Pointer + border
                             /\ r.end_point >= row.Text_Pointer + border
                             /\ ~has_linebreak(row.Token))

filtered_row_df_inner(df, row, border) ==
    SelectSeq(df, LAMBDA r : /\ r.start_point < row.Text_Pointer + border
                             /\ r.end_point > row.Text_Pointer + border
                             /\ ~has_linebreak(row.Token))

\* as new_iob2_tag, the last matching row deciding instead of the first
new_iob2_tag_last(df, row, border) ==
    IF Len(filtered_row_df_beginning(df, row, border)) > 0
    THEN B(filtered_row_df_beginning(df, row, border)[
               Len(filtered_row_df_beginning(df, row, border))].tag)
    ELSE IF Len(filtered_row_df_inner(df, row, border)) > 0
         THEN I(filtered_row_df_inner(df, row, border)[
                    Len(filtered_row_df_inner(df, row, border))].tag)
         ELSE O

new_iob2_tag(df, row, border) ==
    IF Len(filtered_row_df_beginning(df, row, border)) > 0
    THEN B(filtered_row_df_beginning(df, row, border)[1].tag)
    ELSE IF Len(filtered_row_df_inner(df, row, border)) > 0
         THEN I(filtered_row_df_inner(df, row, border)[1].tag)
         ELSE O

\* as new_iob2_tags, the window's start not added to the Text_Pointer
new_iob2_tags_without_window(df, tsv_data_df, border) ==
    [ i \in 1..Len(tsv_data_df) |-> new_iob2_tag(df, tsv_data_df[i], 0) ]

\* first loop: tsv_data_df['Tag'] = new_iob2_tags
new_iob2_tags(df, tsv_data_df, border) ==
    [ i \in 1..Len(tsv_data_df) |-> new_iob2_tag(df, tsv_data_df[i], border) ]

\* as filtered_row_df, the segment's end not compared
filtered_row_df_start_only(df, row, border) ==
    SelectSeq(df, LAMBDA r : r.start_point - border <= row.Text_Pointer)

\* second loop: the rows of ac_data_df covering the token
filtered_row_df(df, row, border) ==
    SelectSeq(df, LAMBDA r : /\ r.start_point - border <= row.Text_Pointer
                             /\ r.end_point - border > row.Text_Pointer)

\* as multi_token_step, the earlier tokens of the annotation left as they are
multi_token_step_no_raise(annotation_ids, multi_token_annotation, annotation_id) ==
    Append(multi_token_annotation,
           Cardinality({ i \in 1..Len(annotation_ids) : annotation_ids[i] = annotation_id }) + 1)

\* the counting step for a token of annotation_id: every earlier token of
\* that annotation is raised by one, the token itself gets their number + 1
multi_token_step(annotation_ids, multi_token_annotation, annotation_id) ==
    LET found_token_indices == { i \in 1..Len(annotation_ids) : annotation_ids[i] = annotation_id }
        amount_of_found_token == Cardinality(found_token_indices)
    IN  [ i \in 1..Len(multi_token_annotation) |->
            IF i \in found_token_indices THEN multi_token_annotation[i] + 1
            ELSE multi_token_annotation[i] ]
        \o <<amount_of_found_token + 1>>

\* as id_loop, but a token gets the number of earlier tokens of its annotation
RECURSIVE id_loop_counting_earlier(_, _, _, _, _, _, _)
id_loop_counting_earlier(annotation_list, df, tsv_data_df, tags, border, i, acc) ==
    IF i > Len(tsv_data_df) THEN acc
    ELSE LET row == tsv_data_df[i] IN
         IF tags[i] = O \/ has_linebreak(row.Token)
         THEN id_loop_counting_earlier(annotation_list, df, tsv_data_df, tags, border, i + 1,
                      [failed |-> FALSE,
                       annotation_ids |-> Append(acc.annotation_ids, "none"),
                       multi_token_annotation |-> Append(acc.multi_token_annotation, 0)])
         ELSE IF Len(filtered_row_df(df, row, border)) = 0
         THEN [failed |-> TRUE, annotation_ids |-> <<>>, multi_token_annotation |-> <<>>]
         ELSE LET annotation_id == annotation_list[filtered_row_df(df, row, border)[1].name].id
                  found_token_indices == { j \in 1..Len(acc.annotation_ids) :
                                             acc.annotation_ids[j] = annotation_id }
              IN
              id_loop_counting_earlier(annotation_list, df, tsv_data_df, tags, border, i + 1,
                      [failed |-> FALSE,
                       annotation_ids |-> Append(acc.annotation_ids, annotation_id),
                       multi_token_annotation |->
                           [ j \in 1..Len(acc.multi_token_annotation) |->
                               IF j \in found_token_indices
                               THEN acc.multi_token_annotation[j] + 1
                               ELSE acc.multi_token_annotation[j] ]
                           \o <<Cardinality(found_token_indices)>>])

\* second loop over the rows i..end, from the lists built so far; the
\* result is the two lists, or failed when filtered_row_df.iloc[0] raises
\* IndexError because no row covers a tagged token
RECURSIVE id_loop(_, _, _, _, _, _, _)
id_loop(annotation_list, df, tsv_data_df, tags, border, i, acc) ==
    IF i > Len(tsv_data_df) THEN acc
    ELSE LET row == tsv_data_df[i] IN
         IF tags[i] = O \/ has_linebreak(row.Token)
         THEN id_loop(annotation_list, df, tsv_data_df, tags, border, i + 1,
                      [failed |-> FALSE,
                       annotation_ids |-> Append(acc.annotation_ids, "none"),
                       multi_token_annotation |-> Append(acc.multi_token_annotation, 0)])
         ELSE IF Len(filtered_row_df(df, row, border)) = 0
         THEN [failed |-> TRUE, annotation_ids |-> <<>>, multi_token_annotation |-> <<>>]
         ELSE LET annotation_id == annotation_list[filtered_row_df(df, row, border)[1].name].id IN
              id_loop(annotation_list, df, tsv_data_df, tags, border, i + 1,
                      [failed |-> FALSE,
                       annotation_ids |-> Append(acc.annotation_ids, annotation_id),
                       multi_token_annotation |->
                           multi_token_step(acc.annotation_ids, acc.multi_token_annotation,
                                            annotation_id)])

\* as to_csv_annotated, the rows of line-break tokens left out
to_csv_annotated_without_linebreaks(tsv_data_df, tags, lists) ==
    SelectSeq([ i \in 1..Len(tsv_data_df) |->
                  [Token_ID |-> tsv_data_df[i].Token_ID,
                   Text_Pointer |-> tsv_data_df[i].Text_Pointer,
                   Token |-> tsv_data_df[i].Token,
                   Tag |-> tags[i],
                   Annotation_ID |-> lists.annotation_ids[i],
                   Multi_Token_Annotation |-> lists.multi_token_annotation[i]] ],
              LAMBDA r : ~has_linebreak(r.Token))

\* the table written by to_csv: the rows read, with the three new columns
to_csv_annotated(tsv_data_df, tags, lists) ==
    [ i \in 1..Len(tsv_data_df) |->
        [Token_ID |-> tsv_data_df[i].Token_ID,
         Text_Pointer |-> tsv_data_df[i].Text_Pointer,
         Token |-> tsv_data_df[i].Token,
         Tag |-> tags[i],
         Annotation_ID |-> lists.annotation_ids[i],
         Multi_Token_Annotation |-> lists.multi_token_annotation[i]] ]

\* pd.read_csv raises FileNotFoundError when the basic token table was
\* never written
create_annotated_token_tsv ==
    /\ next_step = "create_annotated_token_tsv"
    /\ executed' = Append(executed, "create_annotated_token_tsv")
    /\ LET tsv_data_df == read_csv(basic_token_table)
           df == ac_data_df(ac, use_all_text_selection_segments)
           tags == new_iob2_tags(df, tsv_data_df, text_borders)
           lists == id_loop(ac, df, tsv_data_df, tags, text_borders, 1,
                            [failed |-> FALSE, annotation_ids |-> <<>>,
                             multi_token_annotation |-> <<>>])
       IN  IF basic_token_table = <<>> \/ lists.failed
           THEN /\ pc' = "failed"
                /\ UNCHANGED annotated_token_table
           ELSE /\ pc' = "annotated"
                /\ annotated_token_table' = to_csv_annotated(tsv_data_df, tags, lists)
    /\ UNCHANGED <<doc, ac, text_borders, use_all_text_selection_segments,
                   basic_token_table, insert_paragraphs, body_el,
                   annotated_tei, steps, previous_run>>
    /\ UNCHANGED <<window_vars, analyzer_vars>>

(* -------------------------- create_annotated_tei ---------------------- *)
space == " "

\* as paragraph_recognition, the length of the token not looked at
paragraph_recognition_any_length(token) == has_linebreak(token)

\* _paragraph_recognition for the text class 'eltec-deu', on the token text
\* as the table stores it
paragraph_recognition(token) == has_linebreak(token) /\ Len(token) < 10

\* etree.SubElement(body_el, TEI + 'p'): a paragraph, or the body itself
\* when no paragraphs are inserted: its text and its child elements. row is
\* the table row at which the element was created.
new_container(idx) == [text |-> <<>>, spans |-> <<>>, row |-> idx]

\* as SubElement, the annotation attribute left without the row's id
SubElement_without_id(tag, annotation_id) ==
    [tag |-> tag, annotation |-> "none", text |-> <<>>, tail |-> <<>>]

\* etree.SubElement(..., CS1 + row['Tag'][2:], attrib={CS1 + 'annotation':
\* row['Annotation_ID']}); text and tail None are the empty sequence
SubElement(tag, annotation_id) ==
    [tag |-> tag, annotation |-> annotation_id, text |-> <<>>, tail |-> <<>>]

\* tsv_data_df.iloc[idx + 1]['Tag'].startswith('I-') for a row that is not
\* the last one
next_is_inside(tsv_data_df, idx) ==
    idx < Len(tsv_data_df) /\ tsv_data_df[idx + 1].Tag[1] = "I-"

\* the branches shared by B- and I- tokens: the token goes to the element's
\* text, followed by a space when the next row is I-, otherwise a space goes
\* to the element's tail
add_tagged_token(element, tsv_data_df, idx) ==
    IF next_is_inside(tsv_data_df, idx)
    THEN [element EXCEPT !.text = @ \o tsv_data_df[idx].Token \o <<space>>]
    ELSE [element EXCEPT !.text = @ \o tsv_data_df[idx].Token,
                         !.tail = @ \o <<space>>]

\* the loop over the rows idx..end. containers is _paragraph_list (or the
\* body alone); _last_sibling_element is the last child of the last
\* container, None when that has no child: it is set when a child is added
\* and reset when a paragraph is added. failed: the I- branch reads .text of
\* None (AttributeError).
RECURSIVE build_body(_, _, _, _)
build_body(tsv_data_df, insert, idx, containers) ==
    IF idx > Len(tsv_data_df) THEN [failed |-> FALSE, containers |-> containers]
    ELSE LET row == tsv_data_df[idx]
             paragraph_list ==
                 IF insert /\ (idx = 1 \/ paragraph_recognition(row.Token))
                 THEN Append(containers, new_container(idx))
                 ELSE containers
             n == Len(paragraph_list)
             m == Len(paragraph_list[n].spans)
         IN  IF has_linebreak(row.Token)
             THEN build_body(tsv_data_df, insert, idx + 1, paragraph_list)
             ELSE IF row.Tag # O
             THEN IF row.Tag[1] = "B-"
                  THEN build_body(tsv_data_df, insert, idx + 1,
                           [paragraph_list EXCEPT ![n].spans =
                               Append(@, add_tagged_token(
                                             SubElement(row.Tag[2], row.Annotation_ID),
                                             tsv_data_df, idx))])
                  ELSE IF m = 0
                       THEN [failed |-> TRUE, containers |-> <<>>]
                       ELSE build_body(tsv_data_df, insert, idx + 1,
                                [paragraph_list EXCEPT ![n].spans[m] =
                                    add_tagged_token(@, tsv_data_df, idx)])
             ELSE IF m > 0
                  THEN build_body(tsv_data_df, insert, idx + 1,
                           [paragraph_list EXCEPT ![n].spans[m].tail =
                               @ \o row.Token \o <<space>>])
                  ELSE build_body(tsv_data_df, insert, idx + 1,
                           [paragraph_list EXCEPT ![n].text =
                               @ \o row.Token \o <<space>>])

\* etree.tostring of the body: the string as a sequence of characters, a
\* tag's name, attribute value and brackets being one item each
RECURSIVE tostring_spans(_)
tostring_spans(spans) ==
    IF spans = <<>> THEN <<>>
    ELSE <<"<CS1:", Head(spans).tag, " CS1:annotation=", Head(spans).annotation, ">">>
         \o Head(spans).text
         \o <<"</CS1:", Head(spans).tag, ">">>
         \o Head(spans).tail
         \o tostring_spans(Tail(spans))

RECURSIVE tostring_paragraphs(_)
tostring_paragraphs(paragraph_list) ==
    IF paragraph_list = <<>> THEN <<>>
    ELSE (IF Head(paragraph_list).text = <<>> /\ Head(paragraph_list).spans = <<>>
          THEN <<"<p/>", newline>>
          ELSE <<"<p>">> \o Head(paragraph_list).text
               \o tostring_spans(Head(paragraph_list).spans) \o <<"</p>", newline>>)
         \o tostring_paragraphs(Tail(paragraph_list))

tostring(containers, insert) ==
    IF insert
    THEN <<"<body>", newline>> \o tostring_paragraphs(containers) \o <<"</body>">>
    ELSE <<"<body>">> \o containers[1].text \o tostring_spans(containers[1].spans)
         \o <<"</body>">>

\* _fix_punctuation: the corrections in their order, each a pattern of two
\* items and the item that replaces them
corrections ==
    << <<space, ".">>, <<space, ",">>, <<space, ":">>, <<space, ";">>,
       <<"»", space>>, <<space, "«">>, <<space, "?">>, <<space, "!">>,
       <<space, "</p>">> >>

\* re.sub(pattern, replacement, xml_string): the matches from left to right,
\* none overlapping another
RECURSIVE re_sub(_, _)
re_sub(correction, xml_string) ==
    IF Len(xml_string) < 2 THEN xml_string
    ELSE IF xml_string[1] = correction[1] /\ xml_string[2] = correction[2]
         THEN <<IF correction[1] = space THEN correction[2] ELSE correction[1]>>
              \o re_sub(correction, Tail(Tail(xml_string)))
         ELSE <<Head(xml_string)>> \o re_sub(correction, Tail(xml_string))

RECURSIVE apply_corrections(_, _)
apply_corrections(xml_string, k) ==
    IF k > Len(corrections) THEN xml_string
    ELSE apply_corrections(re_sub(corrections[k], xml_string), k + 1)

fix_punctuation(xml_string) == apply_corrections(xml_string, 1)

\* as create_annotated_tei, the tags of the rows taken anew from the
\* annotations
create_annotated_tei_retagged ==
    /\ next_step = "create_annotated_tei"
    /\ executed' = Append(executed, "create_annotated_tei")
    /\ LET table == read_csv(annotated_token_table)
           tags == new_iob2_tags(ac_data_df(ac, use_all_text_selection_segments),
                                 table, text_borders)
           tsv_data_df == [ i \in 1..Len(table) |-> [table[i] EXCEPT !.Tag = tags[i]] ]
           built == build_body(tsv_data_df, insert_paragraphs, 1,
                               IF insert_paragraphs THEN <<>> ELSE <<new_container(0)>>)
       IN  IF annotated_token_table = <<>> \/ built.failed
           THEN /\ pc' = "failed"
                /\ UNCHANGED <<body_el, annotated_tei>>
           ELSE /\ pc' = "tei"
                /\ body_el' = built.containers
                /\ annotated_tei' = fix_punctuation(tostring(built.containers,
                                                             insert_paragraphs))
    /\ UNCHANGED <<doc, ac, text_borders, use_all_text_selection_segments,
                   basic_token_table, annotated_token_table, insert_paragraphs, steps,
                   previous_run>>
    /\ UNCHANGED <<window_vars, analyzer_vars>>

\* pd.read_csv raises FileNotFoundError when the annotated token table was
\* never written
create_annotated_tei ==
    /\ next_step = "create_annotated_tei"
    /\ executed' = Append(executed, "create_annotated_tei")
    /\ LET tsv_data_df == read_csv(annotated_token_table)
           built == build_body(tsv_data_df, insert_paragraphs, 1,
                               IF insert_paragraphs THEN <<>> ELSE <<new_container(0)>>)
       IN  IF annotated_token_table = <<>> \/ built.failed
           THEN /\ pc' = "failed"
                /\ UNCHANGED <<body_el, annotated_tei>>
           ELSE /\ pc' = "tei"
                /\ body_el' = built.containers
                /\ annotated_tei' = fix_punctuation(tostring(built.containers,
                                                             insert_paragraphs))
    /\ UNCHANGED <<doc, ac, text_borders, use_all_text_selection_segments,
                   basic_token_table, annotated_token_table, insert_paragraphs, steps,
                   previous_run>>
    /\ UNCHANGED <<window_vars, analyzer_vars>>

(* --------------------------------- Init ------------------------------- *)
Init ==
    /\ pc = "start"
    /\ doc \in SpacyDfs
    /\ ac \in AnnotationLists
    /\ text_borders \in 0..MaxBorder
    /\ use_all_text_selection_segments \in BOOLEAN
    /\ basic_token_table = <<>>
    /\ annotated_token_table = <<>>
    /\ insert_paragraphs = TRUE
    /\ body_el = <<>>
    /\ annotated_tei = <<>>
    /\ steps = default_steps
    /\ executed = <<>>
    /\ previous_run = <<>>
    /\ input_length = 0
    /\ window = <<0, 0>>
    /\ selected = {}
    /\ no_analysis

Next ==
    \/ create_basic_token_tsv
    \/ create_annotated_token_tsv
    \/ create_annotated_tei

Spec == Init /\ [][Next]_vars

(* ------------- create_annotated_tei on a table in the folder ---------- *)
\* token texts for the TEI stage: words, a punctuation mark, a line break
\* and a line break followed by eight spaces
TeiTokenTexts ==
    { <<"a">>, <<"b">>, <<".">>, <<newline>>,
      <<newline, space, space, space, space, space, space, space, space>> }

\* Tag and Annotation_ID of a row as align writes them: O without an id, or
\* B-/I- of a class with the id of an annotation
TeiLabels ==
    { [Tag |-> O, Annotation_ID |-> "none"] }
    \cup { [Tag |-> B(l[1]), Annotation_ID |-> l[2]] :
             l \in { <<"X", "A1">>, <<"X", "A2">>, <<"Y", "A2">> } }
    \cup { [Tag |-> I(l[1]), Annotation_ID |-> l[2]] :
             l \in { <<"X", "A1">>, <<"X", "A2">>, <<"Y", "A2">> } }

\* the annotated token table of the tokens lemma_df with the given labels
tagged_table(lemma_df, labels) ==
    [ i \in 1..Len(lemma_df) |->
        [Token_ID |-> lemma_df[i].Token_ID,
         Text_Pointer |-> lemma_df[i].Text_Pointer,
         Token |-> lemma_df[i].Token,
         Tag |-> labels[i].Tag,
         Annotation_ID |-> labels[i].Annotation_ID,
         Multi_Token_Annotation |->
             IF labels[i].Tag = O THEN 0
             ELSE Cardinality({ j \in 1..Len(labels) :
                                  labels[j].Annotation_ID = labels[i].Annotation_ID }) ] ]

\* the exporter with only create_annotated_tei activated, in a folder that
\* holds the tables of an earlier export; line-break tokens are tagged O
tei_only_steps ==
    << [name |-> "create_basic_token_tsv", activated |-> FALSE],
       [name |-> "create_annotated_token_tsv", activated |-> FALSE],
       [name |-> "create_annotated_tei", activated |-> TRUE] >>

InitTei ==
    /\ pc = "start"
    /\ \E n \in 1..MaxTokens : \E texts \in [1..n -> TeiTokenTexts] :
         \E labels \in [1..n -> TeiLabels] :
            /\ \A i \in 1..n : has_linebreak(replace(texts[i])) => labels[i].Tag = O
            /\ doc = get_spacy_df(texts)
            /\ basic_token_table = to_csv_basic(doc)
            /\ annotated_token_table = tagged_table(basic_token_table, labels)
    /\ ac = <<>>
    /\ text_borders = 0
    /\ use_all_text_selection_segments = TRUE
    /\ insert_paragraphs \in BOOLEAN
    /\ body_el = <<>>
    /\ annotated_tei = <<>>
    /\ steps = tei_only_steps
    /\ executed = <<>>
    /\ previous_run = <<>>
    /\ input_length = 0
    /\ window = <<0, 0>>
    /\ selected = {}
    /\ no_analysis

NextTei == create_annotated_tei

SpecTei == InitTei /\ [][NextTei]_vars

(* ------------------ runs with any steps configuration ----------------- *)
\* the steps dictionaries with the three steps as entries: the entries in
\* any order, each activated or not
StepNames == {"create_basic_token_tsv", "create_annotated_token_tsv", "create_annotated_tei"}

StepConfigs ==
    { st \in [1..Cardinality(StepNames) -> [name : StepNames, activated : BOOLEAN]] :
        \A i, j \in 1..Cardinality(StepNames) : i # j => st[i].name # st[j].name }

\* the texts and the annotation collections of the runs: two or three
\* tokens, one annotation of class X with one segment that starts with the
\* text
RunTexts == { <<<<"a">>, <<"a">>>>, <<<<"a">>, <<newline>>, <<"a">>>> }

RunAcs ==
    { a \in AnnotationLists :
        /\ Len(a) = 1 /\ Len(a[1].items) = 1 /\ a[1].tag = "X"
        /\ a[1].items[1].start = 0 /\ a[1].items[1].end > 0 }

InitRun ==
    /\ pc = "start"
    /\ doc \in { get_spacy_df(texts) : texts \in RunTexts }
    /\ ac \in RunAcs
    /\ text_borders = 0
    /\ use_all_text_selection_segments = TRUE
    /\ basic_token_table = <<>>
    /\ annotated_token_table = <<>>
    /\ insert_paragraphs \in BOOLEAN
    /\ body_el = <<>>
    /\ annotated_tei = <<>>
    /\ steps \in StepConfigs
    /\ executed = <<>>
    /\ previous_run = <<>>
    /\ input_length = 0
    /\ window = <<0, 0>>
    /\ selected = {}
    /\ no_analysis

\* once the loop of run has ended, a second exporter is made for the same
\* folder, with steps of its own and the text and the annotations of the
\* project as they are by then, and run; the files of the first run are
\* still there. previous_run keeps the steps the first run executed, how
\* it ended, and its text and annotations.
run_again ==
    /\ next_step = "none"
    /\ previous_run = <<>>
    /\ previous_run' = <<executed, pc, doc, ac>>
    /\ steps' \in StepConfigs
    /\ doc' \in { get_spacy_df(texts) : texts \in RunTexts }
    /\ ac' \in RunAcs
    /\ executed' = <<>>
    /\ pc' = "start"
    /\ UNCHANGED <<text_borders, use_all_text_selection_segments,
                   basic_token_table, annotated_token_table, insert_paragraphs,
                   body_el, annotated_tei>>
    /\ UNCHANGED <<window_vars, analyzer_vars>>

NextRun ==
    \/ create_basic_token_tsv
    \/ create_annotated_token_tsv
    \/ create_annotated_tei
    \/ run_again

SpecRun == InitRun /\ [][NextRun]_vars

(* ------------------------ selection by a window ----------------------- *)
MaxLength == 3          \* most items (characters of a text, rows of a table)
MaxOutside == 2         \* how far a window value lies outside 0..length

\* the positions a..b-1 of the input, none when b <= a
Positions(a, b) == [ i \in 1..(b - a) |-> a + i - 1 ]

\* as get_df_with_text_borders, the values clamped to 0..length
get_df_with_text_borders_clamped(length, text_borders_) ==
    LET lo(x) == IF x < 0 THEN 0 ELSE IF x > length THEN length ELSE x
    IN  Positions(lo(text_borders_[1]), lo(text_borders_[2]))

\* _get_df_with_text_borders(input, text_borders): the rows of input kept,
\* as their positions
get_df_with_text_borders(length, text_borders_) ==
    LET start_value == IF text_borders_[1] >= 0 /\ text_borders_[1] < length
                       THEN text_borders_[1] ELSE 0
        end_value == IF text_borders_[2] > start_value /\ text_borders_[2] < length
                     THEN text_borders_[2] ELSE length
    IN  Positions(start_value, end_value)

\* ac.text.plain_text[text_borders[0]:text_borders[1]]: the characters of
\* the slice, as their positions; a negative value counts from the end, a
\* value beyond an end of the text is that end
plain_text_slice(length, text_borders_) ==
    LET bound(x) == IF x < 0
                    THEN (IF x + length < 0 THEN 0 ELSE x + length)
                    ELSE (IF x > length THEN length ELSE x)
    IN  Positions(bound(text_borders_[1]), bound(text_borders_[2]))

InitWindow ==
    /\ pc = "start"
    /\ doc = <<>>
    /\ ac = <<>>
    /\ text_borders = 0
    /\ use_all_text_selection_segments = TRUE
    /\ basic_token_table = <<>>
    /\ annotated_token_table = <<>>
    /\ insert_paragraphs = TRUE
    /\ body_el = <<>>
    /\ annotated_tei = <<>>
    /\ steps = default_steps
    /\ executed = <<>>
    /\ previous_run = <<>>
    /\ input_length \in 0..MaxLength
    /\ window \in ((0 - MaxOutside)..(MaxLength + MaxOutside))
                  \X ((0 - MaxOutside)..(MaxLength + MaxOutside))
    /\ selected = {}
    /\ no_analysis

\* the analyzer takes the rows of a loaded table inside the window
select_rows ==
    /\ \A sel \in selected : sel[1] # "_get_df_with_text_borders"
    /\ selected' = selected \cup
           { <<"_get_df_with_text_borders", get_df_with_text_borders(input_length, window)>> }
    /\ UNCHANGED <<input_length, window>>
    /\ UNCHANGED <<export_vars, analyzer_vars>>

\* create_basic_token_tsv cuts the text to the window before tokenizing it
cut_text ==
    /\ \A sel \in selected : sel[1] # "create_basic_token_tsv"
    /\ selected' = selected \cup
           { <<"create_basic_token_tsv", plain_text_slice(input_length, window)>> }
    /\ UNCHANGED <<input_length, window>>
    /\ UNCHANGED <<export_vars, analyzer_vars>>

NextWindow ==
    \/ select_rows
    \/ cut_text

SpecWindow == InitWindow /\ [][NextWindow]_vars

(* ------------------ AnnotationAnalyzer._load_tsv_files ---------------- *)
MaxPaths == 2           \* most entries of tsv_filepath_list

\* an exporter that was never run, and no selection by a window
no_export ==
    /\ pc = "start"
    /\ doc = <<>>
    /\ ac = <<>>
    /\ text_borders = 0
    /\ use_all_text_selection_segments = TRUE
    /\ basic_token_table = <<>>
    /\ annotated_token_table = <<>>
    /\ insert_paragraphs = TRUE
    /\ body_el = <<>>
    /\ annotated_tei = <<>>
    /\ steps = default_steps
    /\ executed = <<>>
    /\ previous_run = <<>>
    /\ input_length = 0
    /\ window = <<0, 0>>
    /\ selected = {}

canspin_annotation_tsv_columns ==
    { "Token_ID", "Text_Pointer", "Token", "Tag", "Annotation_ID",
      "Multi_Token_Annotation" }

\* self.category_and_class_systems[...]['classes'] of the class system named
\* in the render settings
selected_classes == Classes

\* the tsv files on disk, by path: the columns of each and its rows (token
\* and tag). No file has the path "absent.tsv".
tsv_files ==
    [ path \in { "columns.tsv", "empty.tsv", "foreign.tsv", "a.tsv", "b.tsv" } |->
        CASE path = "columns.tsv" ->
                 [columns |-> canspin_annotation_tsv_columns \ {"Multi_Token_Annotation"},
                  rows |-> << [Token |-> "c", Tag |-> O] >>]
          [] path = "empty.tsv" ->
                 [columns |-> canspin_annotation_tsv_columns, rows |-> <<>>]
          [] path = "foreign.tsv" ->
                 [columns |-> canspin_annotation_tsv_columns,
                  rows |-> << [Token |-> "f", Tag |-> O], [Token |-> "f", Tag |-> B("Z")] >>]
          [] path = "a.tsv" ->
                 [columns |-> canspin_annotation_tsv_columns,
                  rows |-> << [Token |-> "a", Tag |-> B("X")], [Token |-> "a", Tag |-> I("X")] >>]
          [] path = "b.tsv" ->
                 [columns |-> canspin_annotation_tsv_columns,
                  rows |-> << [Token |-> "b", Tag |-> O], [Token |-> "b", Tag |-> B("Y")] >>] ]

\* what a caller may put into the list: the integer 1, or a path
PathEntries ==
    { [is_str |-> FALSE, value |-> "1"] }
    \cup { [is_str |-> TRUE, value |-> path] :
             path \in { "absent.tsv" } \cup DOMAIN tsv_files }

exists(tsv_filepath) == tsv_filepath.value \in DOMAIN tsv_files

\* the first loop: no entry, or the first entry that is not a string or names
\* no file
initial_input_check(list) ==
    IF Len(list) = 0
    THEN [exception |-> "ValueError",
          message |-> <<"Input data is neither a dataframe nor a list of strings.">>]
    ELSE IF \A i \in 1..Len(list) : list[i].is_str /\ exists(list[i])
    THEN [exception |-> "none", message |-> <<>>]
    ELSE LET i == CHOOSE i \in 1..Len(list) :
                      /\ ~(list[i].is_str /\ exists(list[i]))
                      /\ \A j \in 1..(i - 1) : list[j].is_str /\ exists(list[j])
         IN  IF ~list[i].is_str
             THEN [exception |-> "ValueError",
                   message |-> <<"Input data is neither a dataframe nor a list of strings.">>]
             ELSE [exception |-> "FileNotFoundError",
                   message |-> <<"A filepath given in the input data is not valid.">>]

\* the tags of a table without their IOB prefix: x[2:] of every tag but O
tags_without_iob_prefixes(df) ==
    { IF df.rows[i].Tag = O THEN "O" ELSE df.rows[i].Tag[2] : i \in 1..Len(df.rows) }

\* the checks of the second loop on one file that was read
data_structure_check(df) ==
    IF canspin_annotation_tsv_columns \ df.columns # {}
    THEN [exception |-> "ValueError",
          message |-> <<"The tsv file does not contain all the columns defined in the CANSpiN annotation file schema.">>]
    ELSE IF Len(df.rows) = 0
    THEN [exception |-> "ValueError",
          message |-> <<"The tsv file does not contain any data besides the column names.">>]
    ELSE IF (tags_without_iob_prefixes(df) \ {"O"}) \ selected_classes # {}
    THEN [exception |-> "ValueError",
          message |-> <<"The tsv file does contain tags which does not belong to the class system selected in the render settings.">>]
    ELSE [exception |-> "none", message |-> <<>>]

\* pd.concat(...).reset_index(drop=True): the rows of the files in the order
\* of the list
RECURSIVE concat(_)
concat(list) ==
    IF list = <<>> THEN <<>>
    ELSE tsv_files[Head(list).value].rows \o concat(Tail(list))

\* _load_tsv_files(tsv_filepath_list, render_settings): what it returns or
\* raises; the message of an exception is the sequence of its parts
load_tsv_files(list) ==
    LET first == initial_input_check(list)
        read(i) == data_structure_check(tsv_files[list[i].value])
    IN  IF first.exception # "none"
        THEN [state |-> "raised", exception |-> first.exception,
              message |-> first.message]
        ELSE IF \A i \in 1..Len(list) : read(i).exception = "none"
        THEN [state |-> "returned", value |-> concat(list)]
        ELSE LET i == CHOOSE i \in 1..Len(list) :
                          /\ read(i).exception # "none"
                          /\ \A j \in 1..(i - 1) : read(j).exception = "none"
             IN  [state |-> "raised", exception |-> read(i).exception,
                  message |-> read(i).message]

InitLoad ==
    /\ no_export
    /\ tsv_filepath_list \in UNION { [1..n -> PathEntries] : n \in 0..MaxPaths }
    /\ loaded = [state |-> "pending"]
    /\ tsv_annotations = <<>>
    /\ settings = <<>>
    /\ result = <<>>
    /\ calculated = <<>>
    /\ outcome = "pending"
    /\ logged = {}

\* a rendering method calls _load_tsv_files with its list of paths
call_load_tsv_files ==
    /\ loaded.state = "pending"
    /\ loaded' = load_tsv_files(tsv_filepath_list)
    /\ UNCHANGED <<tsv_filepath_list, tsv_annotations, settings, result, calculated,
                   outcome, logged>>
    /\ UNCHANGED <<export_vars, window_vars>>

NextLoad == call_load_tsv_files

SpecLoad == InitLoad /\ [][NextLoad]_vars

(* ------- AnnotationAnalyzer.get_corpus_annotation_statistics ---------- *)
\* a dict is a function, the empty dict the empty function
put(d, key, value) ==
    [ k \in DOMAIN d \cup {key} |-> IF k = key THEN value ELSE d[k] ]

\* the names of the tsv files, filename.split('_')[0].lower() of each, and
\* corpus.split('-') of each of these
Filenames ==
    { "CANSpiN-deu-19_030", "CANSpiN-deu-19_031", "CANSpiN-spa-19_001",
      "CANSpiN-fra-19_001", "Novelas_001" }

corpus_of(filename) ==
    CASE filename \in { "CANSpiN-deu-19_030", "CANSpiN-deu-19_031" } -> "canspin-deu-19"
      [] filename = "CANSpiN-spa-19_001" -> "canspin-spa-19"
      [] filename = "CANSpiN-fra-19_001" -> "canspin-fra-19"
      [] filename = "Novelas_001" -> "novelas"

split_hyphen(corpus) ==
    CASE corpus = "canspin-deu-19" -> <<"canspin", "deu", "19">>
      [] corpus = "canspin-spa-19" -> <<"canspin", "spa", "19">>
      [] corpus = "canspin-fra-19" -> <<"canspin", "fra", "19">>
      [] corpus = "novelas" -> <<"novelas">>

\* the class systems of the schema cs1 (the schema spaceAN is left out)
canspin_annotation_schema_mapping ==
    [ schema \in {"cs1"} |-> { "CS1 v1.1.0 deu", "CS1 v1.1.0 spa" } ]

category_and_class_systems ==
    [ name \in { "CS1 v1.1.0 deu", "CS1 v1.1.0 spa" } |->
        [languages |-> IF name = "CS1 v1.1.0 deu" THEN {"deu"} ELSE {"spa"},
         classes |-> Classes] ]

\* the rows of a tsv file
stat_row(token, tag, id, n) ==
    [Token |-> token, Tag |-> tag, Annotation_ID |-> id, Multi_Token_Annotation |-> n]

\* the tables taken: an annotation of two tokens; an annotation of two
\* segments, each begun with B-, and an annotation of another class
StatTables ==
    { << stat_row("a", B("X"), "A1", 2), stat_row("b", I("X"), "A1", 2),
         stat_row("a", O, "none", 0) >>,
      << stat_row("a", B("X"), "A1", 2), stat_row("b", B("Y"), "A2", 1),
         stat_row("a", B("X"), "A1", 2) >> }

\* self.tsv_annotations: schema -> filename -> table
TsvAnnotations ==
    { <<>> }
    \cup { "cs1" :> ("CANSpiN-deu-19_030" :> t @@ f :> u) :
             t \in StatTables, u \in StatTables,
             f \in { "CANSpiN-deu-19_031", "CANSpiN-spa-19_001", "CANSpiN-fra-19_001" } }
    \cup { "cs1" :> ("CANSpiN-deu-19_030" :> t @@ "Novelas_001" :> t) : t \in StatTables }
    \cup { "cs1" :> ("CANSpiN-deu-19_030" :> t) @@ "ner" :> ("CANSpiN-deu-19_030" :> u) :
             t \in StatTables, u \in StatTables }

\* every (schema, filename) of the loaded data
file_tuples(annotations) ==
    { ft \in (DOMAIN annotations) \X Filenames : ft[2] \in DOMAIN annotations[ft[1]] }

\* tsv_annotations_has_data
tsv_annotations_has_data == file_tuples(tsv_annotations) # {}

(* values: a number, a dict class -> number, or a dict class -> token -> number;
   depth is the number of dict levels *)
RECURSIVE add(_, _, _)
add(a, b, depth) ==
    IF depth = 0 THEN a + b
    ELSE [ k \in DOMAIN a \cup DOMAIN b |->
             IF k \in DOMAIN a /\ k \in DOMAIN b THEN add(a[k], b[k], depth - 1)
             ELSE IF k \in DOMAIN a THEN a[k] ELSE b[k] ]

\* sum(d.values()), and the loops that add dicts up class by class
RECURSIVE sum_of(_, _)
sum_of(d, depth) ==
    IF DOMAIN d = {} THEN (IF depth = 0 THEN 0 ELSE <<>>)
    ELSE LET k == CHOOSE k \in DOMAIN d : TRUE
         IN  add(d[k], sum_of([ j \in DOMAIN d \ {k} |-> d[j] ], depth), depth)

\* value_counts of the classes of the rows picked
value_counts(file_df, picked) ==
    [ classname \in { file_df[i].Tag[2] : i \in picked } |->
        Cardinality({ i \in picked : file_df[i].Tag[2] = classname }) ]

\* file_df[Tag.startswith('B-')].drop_duplicates(subset=['Annotation_ID'])
filtered_df_with_annotations(file_df) ==
    { i \in 1..Len(file_df) :
        /\ file_df[i].Tag[1] = "B-"
        /\ \A j \in 1..(i - 1) :
               ~(file_df[j].Tag[1] = "B-" /\ file_df[j].Annotation_ID = file_df[i].Annotation_ID) }

\* as file_count, but the untagged tokens are kept as a class O
file_count_keeping_O(calculation, file_df) ==
    LET classname_of(i) == IF file_df[i].Tag = O THEN "O" ELSE file_df[i].Tag[2]
        rows == 1..Len(file_df)
        annotated == { i \in rows : file_df[i].Multi_Token_Annotation > 0 }
        begun == { i \in rows :
                     /\ file_df[i].Tag[1] = "B-"
                     /\ \A j \in 1..(i - 1) :
                            ~(/\ file_df[j].Tag[1] = "B-"
                              /\ file_df[j].Annotation_ID = file_df[i].Annotation_ID) }
    IN  CASE calculation = "amount_of_annotations" -> Cardinality(begun)
          [] calculation = "amount_of_annotations_by_class" ->
                 [ classname \in { classname_of(i) : i \in begun } |->
                     Cardinality({ i \in begun : classname_of(i) = classname }) ]
          [] calculation = "amount_of_token" -> Len(file_df)
          [] calculation = "amount_of_annotated_token" -> Cardinality(annotated)
          [] calculation = "amount_of_annotated_token_by_class" ->
                 [ classname \in { classname_of(i) : i \in rows } |->
                     Cardinality({ i \in rows : classname_of(i) = classname }) ]
          [] calculation = "word_lists_by_class" ->
                 [ classname \in { classname_of(i) : i \in annotated } |->
                     [ token \in { file_df[i].Token :
                                     i \in { j \in annotated : classname_of(j) = classname } } |->
                         Cardinality({ i \in annotated : /\ classname_of(i) = classname
                                                         /\ file_df[i].Token = token }) ] ]

\* what one calculation takes from one file
file_count(calculation, file_df) ==
    CASE calculation = "amount_of_annotations" ->
             Cardinality(filtered_df_with_annotations(file_df))
      [] calculation = "amount_of_annotations_by_class" ->
             value_counts(file_df, filtered_df_with_annotations(file_df))
      [] calculation = "amount_of_token" -> Len(file_df)
      [] calculation = "amount_of_annotated_token" ->
             Cardinality({ i \in 1..Len(file_df) : file_df[i].Multi_Token_Annotation > 0 })
      [] calculation = "amount_of_annotated_token_by_class" ->
             value_counts(file_df, { i \in 1..Len(file_df) : file_df[i].Tag # O })
      [] calculation = "word_lists_by_class" ->
             LET annotated == { i \in 1..Len(file_df) : file_df[i].Multi_Token_Annotation > 0 }
             IN  [ classname \in { file_df[i].Tag[2] : i \in annotated } |->
                     [ token \in { file_df[i].Token :
                                     i \in { j \in annotated : file_df[j].Tag[2] = classname } } |->
                         Cardinality({ i \in annotated : /\ file_df[i].Tag[2] = classname
                                                         /\ file_df[i].Token = token }) ] ]

depth_of(calculation) ==
    CASE calculation \in { "amount_of_annotations", "amount_of_token",
                           "amount_of_annotated_token" } -> 0
      [] calculation \in { "amount_of_annotations_by_class",
                           "amount_of_annotated_token_by_class" } -> 1
      [] calculation = "word_lists_by_class" -> 2

\* the class system of a file of a mapped schema: corpus.split('-')[1] raises
\* IndexError when the corpus name has no hyphen
class_system_of(schema, filename) ==
    LET parts == split_hyphen(corpus_of(filename))
        current_language == IF parts[2] = "deu" THEN "deu"
                            ELSE IF parts[2] \in {"spa", "lat"} THEN "spa" ELSE "None"
        names == { name \in DOMAIN category_and_class_systems :
                     /\ current_language \in category_and_class_systems[name].languages
                     /\ name \in canspin_annotation_schema_mapping[schema] }
    IN  IF schema \notin DOMAIN canspin_annotation_schema_mapping THEN [status |-> "unmapped"]
        ELSE IF Len(parts) < 2 THEN [status |-> "IndexError"]
        ELSE IF current_language = "None" THEN [status |-> "language"]
        ELSE IF names = {} THEN [status |-> "class system"]
        ELSE [status |-> "resolved",
              classes |-> category_and_class_systems[CHOOSE name \in names : TRUE].classes]

\* file_summary as stored for a file: the classes of a resolved class system
\* that the file lacks are added with an empty value
file_summary(calculation, schema, filename) ==
    LET counted == file_count(calculation, tsv_annotations[schema][filename])
        system == class_system_of(schema, filename)
    IN  IF depth_of(calculation) = 0 \/ system.status # "resolved" THEN counted
        ELSE [ classname \in DOMAIN counted \cup system.classes |->
                 IF classname \in DOMAIN counted THEN counted[classname]
                 ELSE IF depth_of(calculation) = 1 THEN 0 ELSE <<>> ]

\* the messages logger.info writes for the files taken
messages(calculation, files) ==
    { [calculation |-> calculation, schema |-> ft[1], filename |-> ft[2],
       undetermined |-> class_system_of(ft[1], ft[2]).status] :
        ft \in { ft \in files : /\ depth_of(calculation) > 0
                                /\ class_system_of(ft[1], ft[2]).status
                                       \in {"language", "class system"} } }

\* a dict of values and their sum under TOTAL
with_total(values, depth) ==
    put(values, "TOTAL", sum_of(values, depth))

\* as with_total_of_totals, but TOTAL is that of one of the dicts
with_total_of_one(dicts, depth) ==
    put(dicts, "TOTAL",
        IF DOMAIN dicts = {} THEN sum_of(<<>>, depth)
        ELSE dicts[CHOOSE k \in DOMAIN dicts : TRUE]["TOTAL"])

\* a dict of dicts that have a TOTAL, and the sum of these under TOTAL
with_total_of_totals(dicts, depth) ==
    put(dicts, "TOTAL", sum_of([ k \in DOMAIN dicts |-> dicts[k]["TOTAL"] ], depth))

\* grouping by annotation schema and corpus
default_grouping(calculation) ==
    LET depth == depth_of(calculation)
        by_corpus(schema, corpus) ==
            with_total([ filename \in { f \in DOMAIN tsv_annotations[schema] :
                                          corpus_of(f) = corpus } |->
                           file_summary(calculation, schema, filename) ], depth)
        by_schema(schema) ==
            with_total_of_totals(
                [ corpus \in { corpus_of(f) : f \in DOMAIN tsv_annotations[schema] } |->
                    by_corpus(schema, corpus) ], depth)
    IN  [ schema \in DOMAIN tsv_annotations |-> by_schema(schema) ]

\* settings['custom_grouping']: groups in their order; a group is a list of
\* (schema, filename) or a dict of subgroups, each such a list
RangeOf(seq) == { seq[i] : i \in 1..Len(seq) }

files_of_group(group) ==
    IF group.is_dict
    THEN UNION { RangeOf(group.subgroups[k].files) : k \in 1..Len(group.subgroups) }
    ELSE RangeOf(group.files)

\* grouping by the groups and subgroups of custom_grouping. The sum of a
\* group of subgroups is taken again after each of its subgroups; the last
\* time all of them have their TOTAL.
custom_grouping_of(calculation, custom_grouping) ==
    LET depth == depth_of(calculation)
        groups == 1..Len(custom_grouping)
        schemas(list) == { ft[1] : ft \in RangeOf(list) }
        flat(list, schema) ==
            with_total([ filename \in { ft[2] : ft \in { x \in RangeOf(list) : x[1] = schema } } |->
                           file_summary(calculation, schema, filename) ], depth)
        by_group(group, schema) ==
            IF group.is_dict
            THEN LET subgroups == { k \in 1..Len(group.subgroups) :
                                      schema \in schemas(group.subgroups[k].files) }
                 IN  with_total_of_totals(
                         [ name \in { group.subgroups[k].name : k \in subgroups } |->
                             flat(group.subgroups[CHOOSE k \in subgroups :
                                                      group.subgroups[k].name = name].files,
                                  schema) ], depth)
            ELSE flat(group.files, schema)
        by_schema(schema) ==
            LET with_schema == { g \in groups :
                                   schema \in { ft[1] : ft \in files_of_group(custom_grouping[g]) } }
            IN  with_total_of_totals(
                    [ name \in { custom_grouping[g].name : g \in with_schema } |->
                        by_group(custom_grouping[CHOOSE g \in with_schema :
                                                     custom_grouping[g].name = name], schema) ],
                    depth)
    IN  [ schema \in { ft[1] : ft \in UNION { files_of_group(custom_grouping[g]) : g \in groups } } |->
            by_schema(schema) ]

\* get_amount_of_annotations, get_amount_of_annotations_by_class,
\* get_amount_of_token, get_amount_of_annotated_token,
\* get_amount_of_annotated_token_by_class, get_word_lists_by_class: the same
\* code, each with its own count of a file
get_amount(calculation) ==
    LET custom_grouping == settings.custom_grouping
        files == IF custom_grouping # <<>>
                 THEN UNION { files_of_group(custom_grouping[g]) : g \in 1..Len(custom_grouping) }
                 ELSE file_tuples(tsv_annotations)
    IN  IF /\ depth_of(calculation) > 0
           /\ \E ft \in files : class_system_of(ft[1], ft[2]).status = "IndexError"
        THEN [raised |-> "IndexError", logged |-> messages(calculation, files)]
        ELSE [raised |-> "none", logged |-> messages(calculation, files),
              value |-> IF custom_grouping # <<>>
                        THEN custom_grouping_of(calculation, custom_grouping)
                        ELSE default_grouping(calculation)]

\* reduce_decimal_place(prevent_division_by_zero(a, b), 4), in ten-thousandths
ratio(a, b) == IF b = 0 THEN 0 ELSE (a * 10000) \div b

\* the ratios of one file within its corpus (inner the file, outer the corpus)
\* or of one corpus within its schema: each is computed if the amounts it
\* needs are among those already executed. A key is the parts of its name.
level_ratios(already, inner, outer, in, out) ==
    LET by_class(C, short, A, total_A) ==
            (IF C \in already
             THEN <<short, in, short, out>> :>
                      put([ classname \in DOMAIN outer[C] \cap DOMAIN inner[C] |->
                              ratio(inner[C][classname], outer[C][classname]) ],
                          "TOTAL", ratio(sum_of(inner[C], 0), sum_of(outer[C], 0)))
             ELSE <<>>)
            @@ (IF {C, "amount_of_token"} \subseteq already
                THEN <<short, in, "total_token_amount", in>> :>
                         put([ classname \in DOMAIN inner[C] |->
                                 ratio(inner[C][classname], inner["amount_of_token"]) ],
                             "TOTAL", ratio(sum_of(inner[C], 0), inner["amount_of_token"]))
                ELSE <<>>)
            @@ (IF {C, A} \subseteq already
                THEN <<short, in, total_A, in>> :>
                         [ classname \in DOMAIN inner[C] |->
                             ratio(inner[C][classname], inner[A]) ]
                ELSE <<>>)
    IN  (IF "amount_of_token" \in already
         THEN <<"token_of", in, "total_token_amount", out>> :>
                  ratio(inner["amount_of_token"], outer["amount_of_token"])
         ELSE <<>>)
        @@ by_class("amount_of_annotated_token_by_class", "annotated_token_by_class",
                    "amount_of_annotated_token", "total_annotated_token_amount")
        @@ by_class("amount_of_annotations_by_class", "annotations_by_class",
                    "amount_of_annotations", "total_annotations_amount")

\* the amount calculations whose result is in the global result already
already_executed_absolute_amount_calculations(current_global_results) ==
    { calculation \in DOMAIN current_global_results :
        /\ calculation \in { settings.calculations[i].name : i \in 1..Len(settings.calculations) }
        /\ calculation \in { "amount_of_annotations", "amount_of_annotations_by_class",
                             "amount_of_token", "amount_of_annotated_token",
                             "amount_of_annotated_token_by_class" }
        /\ DOMAIN current_global_results[calculation] # {} }

get_ratios(current_global_results) ==
    LET already == already_executed_absolute_amount_calculations(current_global_results)
        of_file(schema, corpus, filename) ==
            LET inner == [ c \in already |-> current_global_results[c][schema][corpus][filename] ]
                outer == [ c \in already |-> current_global_results[c][schema][corpus]["TOTAL"] ]
            IN  level_ratios(already, inner, outer, "file", "corpus")
        of_corpus(schema, corpus) ==
            LET inner == [ c \in already |-> current_global_results[c][schema][corpus]["TOTAL"] ]
                outer == [ c \in already |-> current_global_results[c][schema]["TOTAL"] ]
            IN  level_ratios(already, inner, outer, "corpus", "schema")
        by_corpus(schema, corpus) ==
            put([ filename \in { f \in DOMAIN tsv_annotations[schema] : corpus_of(f) = corpus } |->
                    of_file(schema, corpus, filename) ],
                "TOTAL", of_corpus(schema, corpus))
    IN  IF already = {}
        THEN [raised |-> "none", logged |-> {}, value |-> <<>>]
        ELSE IF settings.custom_grouping # <<>>
        THEN [raised |-> "NotImplementedError", logged |-> {}]
        ELSE [raised |-> "none", logged |-> {},
              value |-> [ schema \in DOMAIN tsv_annotations |->
                            [ corpus \in { corpus_of(f) : f \in DOMAIN tsv_annotations[schema] } |->
                                by_corpus(schema, corpus) ] ]]

\* methods[calculation][0](**methods[calculation][1])
methods(calculation) ==
    IF calculation = "ratios" THEN get_ratios(result) ELSE get_amount(calculation)

\* the names of the calculations of default_get_corpus_annotation_statistics_settings
\* in their order, and the order with ratios moved to the front
default_calculations ==
    << "amount_of_annotations", "amount_of_annotations_by_class", "amount_of_token",
       "amount_of_annotated_token", "amount_of_annotated_token_by_class", "ratios",
       "word_lists_by_class" >>

CalculationOrders ==
    { default_calculations,
      << "ratios", "amount_of_annotations", "amount_of_annotations_by_class",
         "amount_of_token", "amount_of_annotated_token",
         "amount_of_annotated_token_by_class", "word_lists_by_class" >> }

\* settings['calculations']: every order taken with every choice of activation
Calculations ==
    { [ i \in 1..Len(order) |-> [name |-> order[i], activated |-> on[order[i]]] ] :
        order \in CalculationOrders, on \in [RangeOf(default_calculations) -> BOOLEAN] }

\* settings['custom_grouping'] for the loaded data: None, two groups sharing a
\* file, or a group of two subgroups sharing a file and a plain group
CustomGroupings(annotations) ==
    IF file_tuples(annotations) = {} THEN { <<>> }
    ELSE LET first == <<"cs1", "CANSpiN-deu-19_030">>
             second == CHOOSE ft \in file_tuples(annotations) : ft # first
         IN  { <<>>,
               << [name |-> "g1", is_dict |-> FALSE, files |-> <<first, second>>],
                  [name |-> "g2", is_dict |-> FALSE, files |-> <<first>>] >>,
               << [name |-> "g1", is_dict |-> TRUE,
                   subgroups |-> << [name |-> "s1", files |-> <<first>>],
                                    [name |-> "s2", files |-> <<second, first>>] >>],
                  [name |-> "g2", is_dict |-> FALSE, files |-> <<second>>] >> }

\* the activated calculations in the order of settings['calculations']
RECURSIVE activated_calculations(_)
activated_calculations(calculations) ==
    IF calculations = <<>> THEN <<>>
    ELSE (IF Head(calculations).activated THEN <<Head(calculations).name>> ELSE <<>>)
         \o activated_calculations(Tail(calculations))

InitStatistics ==
    /\ no_export
    /\ tsv_filepath_list = <<>>
    /\ loaded = [state |-> "pending"]
    /\ tsv_annotations \in TsvAnnotations
    /\ settings \in { [calculations |-> calculations, custom_grouping |-> custom_grouping] :
                        calculations \in Calculations,
                        custom_grouping \in CustomGroupings(tsv_annotations) }
    /\ result = <<>>
    /\ calculated = <<>>
    /\ outcome = "pending"
    /\ logged = {}

\* one pass of the loop over the activated calculations: the result of the
\* calculation is put into the global result, or its exception leaves
\* get_corpus_annotation_statistics. Of the files met before the one that
\* raises, any may have been logged.
calculate ==
    /\ outcome = "pending"
    /\ tsv_annotations_has_data
    /\ Len(calculated) < Len(activated_calculations(settings.calculations))
    /\ LET calculation == activated_calculations(settings.calculations)[Len(calculated) + 1]
           out == methods(calculation)
       IN  IF out.raised # "none"
           THEN /\ outcome' = out.raised
                /\ logged' \in { logged \cup some : some \in SUBSET out.logged }
                /\ UNCHANGED <<result, calculated>>
           ELSE /\ result' = put(result, calculation, out.value)
                /\ calculated' = Append(calculated, calculation)
                /\ logged' = logged \cup out.logged
                /\ UNCHANGED outcome
    /\ UNCHANGED <<tsv_filepath_list, loaded, tsv_annotations, settings>>
    /\ UNCHANGED <<export_vars, window_vars>>

\* the global result is returned: empty when no tsv data is loaded, else
\* after the last activated calculation
return_result ==
    /\ outcome = "pending"
    /\ \/ ~tsv_annotations_has_data
       \/ Len(calculated) = Len(activated_calculations(settings.calculations))
    /\ outcome' = "returned"
    /\ UNCHANGED <<tsv_filepath_list, loaded, tsv_annotations, settings, result,
                   calculated, logged>>
    /\ UNCHANGED <<export_vars, window_vars>>

NextStatistics ==
    \/ calculate
    \/ return_result

SpecStatistics == InitStatistics /\ [][NextStatistics]_vars

(* ====================== properties of the alignment ==================== *)
Range(s) == { s[i] : i \in 1..Len(s) }

Done == pc = "annotated"
Rows == annotated_token_table
RowIds == 1..Len(annotated_token_table)
Offset(i) == annotated_token_table[i].Text_Pointer + text_borders
IsLineBreak(i) == has_linebreak(annotated_token_table[i].Token)

\* the segments matched in the active mode: every segment of every
\* annotation (segmentLevel), or one range per annotation from its first
\* segment's start to its last segment's end (boundaryLevel)
AllSegments ==
    UNION { { [ann |-> a, start |-> ac[a].items[k].start, end |-> ac[a].items[k].end,
               tag |-> ac[a].tag] : k \in 1..Len(ac[a].items) } : a \in 1..Len(ac) }

AnnotationBounds ==
    { [ann |-> a, start |-> ac[a].items[1].start,
       end |-> ac[a].items[Len(ac[a].items)].end, tag |-> ac[a].tag] : a \in 1..Len(ac) }

ActiveSegments ==
    IF use_all_text_selection_segments THEN AllSegments ELSE AnnotationBounds

StartingAt(off) == { s \in ActiveSegments : s.start = off }
StrictlyAround(off) == { s \in ActiveSegments : s.start < off /\ off < s.end }
Covering(off) == { s \in ActiveSegments : s.start <= off /\ off < s.end }

\* C1: every token that is no line break is tagged B-<class> of a segment
\* starting at its (window-adjusted) offset if there is one, otherwise
\* I-<class> of a segment with start < offset < end if there is one, otherwise
\* O; a segment ending at the offset gives no I-.
C1_TagPrecedence ==
    Done => \A i \in RowIds : ~IsLineBreak(i) =>
        IF StartingAt(Offset(i)) # {}
        THEN \E s \in StartingAt(Offset(i)) : Rows[i].Tag = B(s.tag)
        ELSE IF StrictlyAround(Offset(i)) # {}
             THEN \E s \in StrictlyAround(Offset(i)) : Rows[i].Tag = I(s.tag)
             ELSE Rows[i].Tag = O

\* a table with a B- token, an I- token and a token at the end of a segment
\* that started before it and is not continued by another segment
C1_Witness ==
    /\ Done
    /\ \E i, j, k \in RowIds :
        /\ Rows[i].Tag[1] = "B-"
        /\ Rows[j].Tag[1] = "I-"
        /\ ~IsLineBreak(k)
        /\ \E s \in ActiveSegments : s.start < Offset(k) /\ s.end = Offset(k)
        /\ Rows[k].Tag = O

\* C2: the annotated table has one row per row of the basic token table, in
\* the same order, with Token_ID, Text_Pointer and Token unchanged, and every
\* row has exactly one Tag, one Annotation_ID and one Multi_Token_Annotation.
C2_OneRowPerToken ==
    Done =>
        /\ Len(Rows) = Len(basic_token_table)
        /\ \A i \in RowIds :
            /\ DOMAIN Rows[i] = {"Token_ID", "Text_Pointer", "Token", "Tag",
                                 "Annotation_ID", "Multi_Token_Annotation"}
            /\ Rows[i].Token_ID = basic_token_table[i].Token_ID
            /\ Rows[i].Text_Pointer = basic_token_table[i].Text_Pointer
            /\ Rows[i].Token = basic_token_table[i].Token
            /\ Rows[i].Tag \in {O} \cup { B(c) : c \in Classes } \cup { I(c) : c \in Classes }
            /\ Rows[i].Annotation_ID \in {"none"} \cup Range(IdPool)
            /\ Rows[i].Multi_Token_Annotation \in 0..Len(Rows)

\* a table with a line-break row and a token at which one annotation starts
\* while another one is around it
C2_Witness ==
    /\ Done
    /\ \E i, j \in RowIds :
        /\ IsLineBreak(i)
        /\ StartingAt(Offset(j)) # {}
        /\ StrictlyAround(Offset(j)) # {}
        /\ Rows[j].Tag # O

(* ------------------------- multi-token counting ----------------------- *)
\* the rows carrying annotation id a, and their number
RowsOf(a) == { i \in RowIds : Rows[i].Annotation_ID = a }
\* the position of row i among the rows carrying its annotation id
RankOf(i) == Cardinality({ j \in RowsOf(Rows[i].Annotation_ID) : j <= i })

\* C3 (as stated): the tokens carrying an annotation id have the
\* Multi_Token_Annotation values 1, 2, ..., n in token order.
C3_DenseRun ==
    Done => \A i \in RowIds :
        Rows[i].Annotation_ID # "none" => Rows[i].Multi_Token_Annotation = RankOf(i)

\* C3 (amended): all tokens carrying an annotation id a have the same
\* Multi_Token_Annotation value, the number n of tokens carrying a.
C3_SharedCount ==
    Done => \A i \in RowIds :
        Rows[i].Annotation_ID # "none" =>
            Rows[i].Multi_Token_Annotation = Cardinality(RowsOf(Rows[i].Annotation_ID))

\* segmentLevel: an annotation of two segments with a gap between them, a
\* token at the start of each, both carrying the annotation's id and the value 2
C3_Witness ==
    /\ Done
    /\ use_all_text_selection_segments
    /\ \E a \in 1..Len(ac), i, j \in RowIds :
        /\ Len(ac[a].items) = 2
        /\ ac[a].items[1].end < ac[a].items[2].start
        /\ i < j
        /\ Offset(i) = ac[a].items[1].start
        /\ Offset(j) = ac[a].items[2].start
        /\ Rows[i].Annotation_ID = ac[a].id /\ Rows[j].Annotation_ID = ac[a].id
        /\ Rows[i].Tag = B(ac[a].tag) /\ Rows[j].Tag = B(ac[a].tag)
        /\ Rows[i].Multi_Token_Annotation = 2 /\ Rows[j].Multi_Token_Annotation = 2

(* --------------------------- annotation ids --------------------------- *)
\* C4: the Annotation_ID of a token tagged B-X is the id of an annotation of
\* class X with a segment starting at the token's offset, that of a token
\* tagged I-X the id of an annotation of class X with a segment strictly
\* around the offset.
C4_IdOfTaggingAnnotation ==
    Done => \A i \in RowIds :
        /\ Rows[i].Tag[1] = "B-" =>
             \E s \in StartingAt(Offset(i)) :
                 Rows[i].Tag = B(s.tag) /\ Rows[i].Annotation_ID = ac[s.ann].id
        /\ Rows[i].Tag[1] = "I-" =>
             \E s \in StrictlyAround(Offset(i)) :
                 Rows[i].Tag = I(s.tag) /\ Rows[i].Annotation_ID = ac[s.ann].id

(* ------------------------------ tie-break ----------------------------- *)
\* the annotation listed first among those of the segments in S
First(S) == CHOOSE a \in { s.ann : s \in S } : \A s \in S : a <= s.ann

\* C5: when several annotations match a token under the rule that fires, the
\* one listed first in the annotation collection determines the tag.
C5_FirstListedWins ==
    Done => \A i \in RowIds : ~IsLineBreak(i) =>
        /\ StartingAt(Offset(i)) # {} =>
             Rows[i].Tag = B(ac[First(StartingAt(Offset(i)))].tag)
        /\ (StartingAt(Offset(i)) = {} /\ StrictlyAround(Offset(i)) # {}) =>
             Rows[i].Tag = I(ac[First(StrictlyAround(Offset(i)))].tag)

\* two annotations of different classes are around the same token, none
\* starts at it; the token has the class of the first
C5_Witness ==
    /\ Done
    /\ \E i \in RowIds :
        /\ ~IsLineBreak(i)
        /\ StartingAt(Offset(i)) = {}
        /\ \E s, t \in StrictlyAround(Offset(i)) : s.ann < t.ann /\ s.tag # t.tag
        /\ Rows[i].Tag = I(ac[1].tag)

C7_LineBreakIsOutside ==
    Done => \A i \in RowIds :
        IF IsLineBreak(i)
        THEN /\ Rows[i].Tag = O
             /\ Rows[i].Annotation_ID = "none"
             /\ Rows[i].Multi_Token_Annotation = 0
        ELSE Rows[i].Annotation_ID # "none" =>
                Rows[i].Multi_Token_Annotation =
                    Cardinality({ j \in RowIds :
                        ~IsLineBreak(j) /\ Rows[j].Annotation_ID = Rows[i].Annotation_ID })

\* a line-break token at the start of a segment, and another token tagged
\* by that segment's annotation with the value 1
C7_Witness ==
    /\ Done
    /\ \E i, j \in RowIds :
        /\ IsLineBreak(i)
        /\ \E s \in StartingAt(Offset(i)) :
            /\ Offset(i) < Offset(j) /\ Offset(j) < s.end
            /\ Rows[j].Annotation_ID = ac[s.ann].id
            /\ Rows[j].Multi_Token_Annotation = 1

(* ----------------------------- closed world --------------------------- *)
\* C8: a token whose offset no segment of the active mode covers
\* (start <= offset < end) has Tag O and Annotation_ID none.
C8_UncoveredIsO ==
    Done => \A i \in RowIds :
        Covering(Offset(i)) = {} => (Rows[i].Tag = O /\ Rows[i].Annotation_ID = "none")

\* a token at the end of a segment and covered by no segment is O, in a
\* table that has a tagged token as well
C8_Witness ==
    /\ Done
    /\ \E i, j \in RowIds :
        /\ ~IsLineBreak(i)
        /\ Covering(Offset(i)) = {}
        /\ \E s \in ActiveSegments : s.end = Offset(i)
        /\ Rows[i].Tag = O
        /\ Rows[j].Tag # O

\* C9: a zero-length segment gives no token a B- or I- tag: a B- token has a
\* segment of its class and of positive length starting at its offset.
C9_ZeroLengthMatchesNothing ==
    Done => \A i \in RowIds :
        Rows[i].Tag[1] = "B-" =>
            \E s \in StartingAt(Offset(i)) : s.start < s.end /\ Rows[i].Tag = B(s.tag)

(* ------------------------------ round trip ---------------------------- *)
\* C10: reading the written basic token table back yields the token texts
\* the tokenizer delivered.
C10_RoundTrip ==
    pc # "start" =>
        /\ Len(read_csv(basic_token_table)) = Len(doc)
        /\ \A i \in 1..Len(doc) : read_csv(basic_token_table)[i].Token = doc[i].Token

(* ======================= properties of the TEI build =================== *)
TeiDone == pc = "tei"
TeiRows == 1..Len(annotated_token_table)
TeiIsLineBreak(i) == has_linebreak(annotated_token_table[i].Token)

\* the span elements of the document in document order
RECURSIVE SpansOf(_)
SpansOf(containers) ==
    IF containers = <<>> THEN <<>>
    ELSE Head(containers).spans \o SpansOf(Tail(containers))

\* the rows of the B- tagged tokens that are no line breaks, in table order
RECURSIVE RowsFrom(_, _)
RowsFrom(S, i) ==
    IF i > Len(annotated_token_table) THEN <<>>
    ELSE (IF i \in S THEN <<i>> ELSE <<>>) \o RowsFrom(S, i + 1)

BeginRows ==
    RowsFrom({ i \in TeiRows : ~TeiIsLineBreak(i) /\ annotated_token_table[i].Tag[1] = "B-" }, 1)

\* row j continues the span opened at row b: an I- token of the same class
\* and annotation id, every row between them doing so as well
Continues(b, j) ==
    \A k \in (b + 1)..j :
        /\ annotated_token_table[k].Tag = I(annotated_token_table[b].Tag[2])
        /\ annotated_token_table[k].Annotation_ID = annotated_token_table[b].Annotation_ID

RunEnd(b) ==
    CHOOSE j \in b..Len(annotated_token_table) :
        Continues(b, j) /\ (j = Len(annotated_token_table) \/ ~Continues(b, j + 1))

\* the token texts of rows b..e joined by single spaces
RECURSIVE Joined(_, _)
Joined(b, e) ==
    IF b = e THEN annotated_token_table[b].Token
    ELSE Joined(b, e - 1) \o <<space>> \o annotated_token_table[e].Token

\* C11: in the built document the span opened by a B- token holds exactly
\* the texts of that token and of the directly following I- tokens of the
\* same class and annotation id, joined by single spaces; an I- token of
\* another class or annotation id is not merged into it.
C11_SpanMerging ==
    TeiDone =>
        /\ Len(SpansOf(body_el)) = Len(BeginRows)
        /\ \A k \in 1..Len(BeginRows) :
               SpansOf(body_el)[k].text = Joined(BeginRows[k], RunEnd(BeginRows[k]))


\* the rows that start a paragraph, the rows tagged O that are no line
\* breaks, and the paragraph (or the body) a row belongs to
ParagraphStart(i) ==
    insert_paragraphs /\ (i = 1 \/ paragraph_recognition(annotated_token_table[i].Token))

OutsideRows ==
    { i \in TeiRows : ~TeiIsLineBreak(i) /\ annotated_token_table[i].Tag = O }

ContainerOf(i) ==
    IF insert_paragraphs THEN Cardinality({ j \in 1..i : ParagraphStart(j) }) ELSE 1

\* the number of spans opened before row i, and of those opened before
\* row i in the paragraph of row i
SpansBefore(i) == Cardinality({ k \in 1..Len(BeginRows) : BeginRows[k] < i })

SpansBeforeInContainer(i) ==
    Cardinality({ k \in 1..Len(BeginRows) :
                    BeginRows[k] < i /\ ContainerOf(BeginRows[k]) = ContainerOf(i) })

Contains(text, piece) ==
    \E at \in 0..(Len(text) - Len(piece)) :
        \A j \in 1..Len(piece) : text[at + j] = piece[j]

Stripped(text) == SelectSeq(text, LAMBDA c : c # space)

IsPrefix(a, b) == Len(a) <= Len(b) /\ \A j \in 1..Len(a) : a[j] = b[j]

\* the texts of the rows b..e that are no line breaks, one after another
RECURSIVE TokensOf(_, _)
TokensOf(b, e) ==
    IF b > e THEN <<>>
    ELSE TokensOf(b, e - 1)
         \o (IF TeiIsLineBreak(e) THEN <<>> ELSE annotated_token_table[e].Token)

\* C12: in the built document the text of a token tagged O (no line break),
\* followed by one space, stands in the tail of the span before it in its
\* paragraph, or in the paragraph's text when no span precedes it there; and
\* the text of a span opened before that token holds only texts of tokens
\* that precede the token.
C12_OutsideTerminatesSpan ==
    TeiDone =>
        \A o \in OutsideRows :
            /\ IF SpansBeforeInContainer(o) > 0
               THEN Contains(SpansOf(body_el)[SpansBefore(o)].tail,
                             annotated_token_table[o].Token \o <<space>>)
               ELSE Contains(body_el[ContainerOf(o)].text,
                             annotated_token_table[o].Token \o <<space>>)
            /\ \A k \in 1..SpansBefore(o) :
                   IsPrefix(Stripped(SpansOf(body_el)[k].text),
                            TokensOf(BeginRows[k], o - 1))


\* the character data of the document read in document order: of every
\* paragraph its text, then of every span its text and its tail
RECURSIVE ReadSpans(_)
ReadSpans(spans) ==
    IF spans = <<>> THEN <<>>
    ELSE Head(spans).text \o Head(spans).tail \o ReadSpans(Tail(spans))

RECURSIVE Reading(_)
Reading(containers) ==
    IF containers = <<>> THEN <<>>
    ELSE Head(containers).text \o ReadSpans(Head(containers).spans)
         \o Reading(Tail(containers))

\* C13: reading the built document in document order yields the texts of
\* all tokens that are no line breaks, each once, in the order of the table
\* (the separating spaces left aside).
C13_ReadingOrder ==
    TeiDone => Stripped(Reading(body_el)) = TokensOf(1, Len(annotated_token_table))


\* the rows at which the paragraphs of the document were created
ParagraphRows == [ k \in 1..Len(body_el) |-> body_el[k].row ]

\* a token with a line break in the text the tokenizer delivered
RawLineBreak(i) == \E j \in 1..Len(doc[i].Token) : doc[i].Token[j] = newline

\* C14 as stated: with paragraphs inserted, the paragraphs start at the
\* first token and at exactly the later line-break tokens whose raw
\* (unescaped) text is shorter than 10 characters, one paragraph each.
C14_RawLength ==
    (TeiDone /\ insert_paragraphs) =>
        ParagraphRows =
            RowsFrom({1} \cup { i \in TeiRows : RawLineBreak(i) /\ Len(doc[i].Token) < 10 }, 1)

\* C14: with paragraphs inserted, the paragraphs start at the first token
\* and at exactly the later line-break tokens whose stored text, every
\* newline written as the two characters backslash and n, is shorter than 10
\* characters; the first token starts one paragraph only.
C14_StoredLength ==
    (TeiDone /\ insert_paragraphs) =>
        ParagraphRows =
            RowsFrom({1} \cup { i \in TeiRows :
                                  /\ TeiIsLineBreak(i)
                                  /\ Len(annotated_token_table[i].Token) < 10 }, 1)

\* the first token is a line break that starts a paragraph, a later line
\* break of raw length 9 starts none, a still later one starts the second
C14_Witness ==
    /\ TeiDone /\ insert_paragraphs
    /\ Len(annotated_token_table) = 3
    /\ Len(doc[1].Token) = 1 /\ RawLineBreak(1)
    /\ Len(doc[2].Token) = 9 /\ RawLineBreak(2)
    /\ ParagraphRows = <<1, 3>>


\* the start tags of span elements in the written markup, in order: class
\* and annotation attribute of each
RECURSIVE StartTags(_)
StartTags(xml_string) ==
    IF xml_string = <<>> THEN <<>>
    ELSE (IF Head(xml_string) = "<CS1:"
          THEN << <<xml_string[2], xml_string[4]>> >> ELSE <<>>)
         \o StartTags(Tail(xml_string))

\* C15: the span elements of the built document, and their start tags in
\* the written markup, correspond one-to-one and in order to the B- tagged
\* tokens that are no line breaks: each is named by its token's class and
\* carries that token's Annotation_ID as annotation attribute.
C15_SpanPerBeginToken ==
    TeiDone =>
        /\ Len(SpansOf(body_el)) = Len(BeginRows)
        /\ \A k \in 1..Len(BeginRows) :
               /\ SpansOf(body_el)[k].tag = annotated_token_table[BeginRows[k]].Tag[2]
               /\ SpansOf(body_el)[k].annotation =
                      annotated_token_table[BeginRows[k]].Annotation_ID
        /\ StartTags(annotated_tei) =
               [ k \in 1..Len(BeginRows) |->
                   <<annotated_token_table[BeginRows[k]].Tag[2],
                     annotated_token_table[BeginRows[k]].Annotation_ID>> ]

\* two B- tokens of different classes and annotations, an I- token between
\* them
C15_Witness ==
    /\ TeiDone
    /\ Len(BeginRows) = 2
    /\ \E i \in TeiRows : annotated_token_table[i].Tag[1] = "I-"
    /\ StartTags(annotated_tei) = << <<"X", "A1">>, <<"Y", "A2">> >>


\* the written markup without the tags of the span elements: the character
\* data in document order, with the paragraphs' tags left in place
RECURSIVE CharData(_)
CharData(xml_string) ==
    IF xml_string = <<>> THEN <<>>
    ELSE IF Head(xml_string) = "<CS1:" THEN CharData(SubSeq(xml_string, 6, Len(xml_string)))
    ELSE IF Head(xml_string) = "</CS1:" THEN CharData(SubSeq(xml_string, 4, Len(xml_string)))
    ELSE <<Head(xml_string)>> \o CharData(Tail(xml_string))

\* C16: in the written markup no separator space is left before a closing
\* punctuation mark, before an opening guillemet or before a paragraph's
\* end, and none after a closing guillemet, also where a span element's tag
\* stands between the space and the mark.
C16_NoSeparatorLeft ==
    TeiDone =>
        \A i \in 1..(Len(CharData(annotated_tei)) - 1) :
            /\ ~(/\ CharData(annotated_tei)[i] = space
                 /\ CharData(annotated_tei)[i + 1] \in
                        {".", ",", ":", ";", "?", "!", "«", "</p>"})
            /\ ~(/\ CharData(annotated_tei)[i] = "»"
                 /\ CharData(annotated_tei)[i + 1] = space)


(* ========================= properties of the runs ====================== *)
\* the activated steps of the configuration in forward order
ForwardOrder ==
    SelectSeq(<<"create_basic_token_tsv", "create_annotated_token_tsv",
                "create_annotated_tei">>,
              LAMBDA name : \E i \in 1..Len(steps) :
                                steps[i].name = name /\ steps[i].activated)

\* C17: whatever the activation flags and the order of the entries of the
\* steps configuration, the steps a run has executed are the activated steps
\* in forward order, each once, as far as the run has come, and all of them
\* when the run has ended without a failure.
C17_ForwardOrder ==
    /\ IsPrefix(executed, ForwardOrder)
    /\ (next_step = "none" /\ pc # "failed") => executed = ForwardOrder


AllForward ==
    <<"create_basic_token_tsv", "create_annotated_token_tsv", "create_annotated_tei">>

\* the second run has only create_annotated_tei activated and follows a run
\* of all three steps that wrote the tables and the document
TeiOnlyAfterFullRun ==
    /\ previous_run # <<>>
    /\ previous_run[1] = AllForward /\ previous_run[2] = "tei"
    /\ activated_steps(steps) = <<"create_annotated_tei">>

\* C18: a run with only create_annotated_tei activated, on the annotated
\* token table a run of all three steps wrote, executes that step alone,
\* leaves both token tables as they are and writes the markup the full run
\* wrote, whatever the annotations are by then.
C18_TeiFromTableAlone ==
    [][ (TeiOnlyAfterFullRun /\ executed' # executed) =>
            /\ executed' = <<"create_annotated_tei">>
            /\ pc' = "tei"
            /\ annotated_tei' = annotated_tei
            /\ body_el' = body_el
            /\ UNCHANGED <<basic_token_table, annotated_token_table>> ]_vars

\* the second run has built the document with a span from a table that the
\* annotations at hand would not give
C18_Witness ==
    /\ TeiOnlyAfterFullRun
    /\ executed = <<"create_annotated_tei">>
    /\ pc = "tei"
    /\ Len(SpansOf(body_el)) > 0
    /\ new_iob2_tags(ac_data_df(ac, use_all_text_selection_segments),
                     annotated_token_table, text_borders)
         # [ i \in 1..Len(annotated_token_table) |-> annotated_token_table[i].Tag ]


Clamp(x) == IF x < 0 THEN 0 ELSE IF x > input_length THEN input_length ELSE x

InRange == 0 <= window[1] /\ window[1] < window[2] /\ window[2] <= input_length

\* C20 as stated: every selection holds exactly the positions from
\* max(0, min(s, length)) up to, not including, max(0, min(e, length)).
C20_Clamped ==
    \A sel \in selected :
        /\ sel[2] = Positions(Clamp(window[1]), Clamp(window[2]))
        /\ InRange => Len(sel[2]) = window[2] - window[1]

\* C20: the rows the analyzer keeps are those from s' up to, not including,
\* e', where s' is s if 0 <= s < length and 0 otherwise, and e' is e if
\* s' < e < length and length otherwise; the characters the exporter keeps are
\* those of the slice [s:e], where a negative value counts from the end and a
\* value beyond an end of the text is that end; either way a window with
\* 0 <= s < e <= length keeps exactly e - s items.
C20_Selection ==
    \A sel \in selected :
        LET s_ == IF sel[1] = "_get_df_with_text_borders"
                  THEN (IF 0 <= window[1] /\ window[1] < input_length THEN window[1] ELSE 0)
                  ELSE Clamp(IF window[1] < 0 THEN window[1] + input_length ELSE window[1])
            e_ == IF sel[1] = "_get_df_with_text_borders"
                  THEN (IF s_ < window[2] /\ window[2] < input_length
                        THEN window[2] ELSE input_length)
                  ELSE Clamp(IF window[2] < 0 THEN window[2] + input_length ELSE window[2])
        IN  /\ Range(sel[2]) = { q \in 0..(input_length - 1) : s_ <= q /\ q < e_ }
            /\ \A j \in 1..(Len(sel[2]) - 1) : sel[2][j + 1] = sel[2][j] + 1
            /\ InRange => Len(sel[2]) = window[2] - window[1]

\* both selections are made for a window whose start lies beyond the
\* length: the analyzer keeps every row, the exporter no character
C20_Witness ==
    /\ input_length = 3
    /\ window[1] > input_length
    /\ <<"_get_df_with_text_borders", <<0, 1, 2>>>> \in selected
    /\ <<"create_basic_token_tsv", <<>>>> \in selected


\* the basic token table in the folder was not made from the text at hand
TableDisagrees == basic_token_table # <<>> /\ basic_token_table # to_csv_basic(doc)

\* C21: when create_annotated_token_tsv is handed a basic token table that
\* does not reproduce the text at hand, it fails and writes no annotated
\* token table.
C21_MismatchIsFatal ==
    [][ (TableDisagrees /\ executed' = Append(executed, "create_annotated_token_tsv")) =>
            (pc' = "failed" /\ annotated_token_table' = annotated_token_table) ]_vars


\* a run is followed by a run on the same text and annotations
SameInputsAgain ==
    /\ previous_run # <<>>
    /\ doc = previous_run[3]
    /\ ac = previous_run[4]

C27_BuildCompletes ==
    [][ (pc = "annotated" /\ executed' = Append(executed, "create_annotated_tei")) =>
            pc' = "tei" ]_vars

\* the two lists of the counting loop after its first k iterations
ListsAfter(k) ==
    LET tsv_data_df == read_csv(basic_token_table)
        df == ac_data_df(ac, use_all_text_selection_segments)
    IN  id_loop(ac, df, SubSeq(tsv_data_df, 1, k),
                new_iob2_tags(df, tsv_data_df, text_borders), text_borders, 1,
                [failed |-> FALSE, annotation_ids |-> <<>>, multi_token_annotation |-> <<>>])

\* C28: after every iteration of the counting loop every token processed so
\* far that carries an annotation id has as Multi_Token_Annotation the number
\* of tokens processed so far that carry this id; the lists after the last
\* iteration are the two columns of the written table.
C28_CountAfterEveryIteration ==
    Done => \A k \in 0..Len(annotated_token_table) :
        LET lists == ListsAfter(k)
        IN  /\ Len(lists.annotation_ids) = k
            /\ Len(lists.multi_token_annotation) = k
            /\ \A i \in 1..k :
                   lists.multi_token_annotation[i] =
                       IF lists.annotation_ids[i] = "none" THEN 0
                       ELSE Cardinality({ j \in 1..k :
                                            lists.annotation_ids[j] = lists.annotation_ids[i] })
            /\ k = Len(annotated_token_table) =>
                   \A i \in 1..k :
                       /\ Rows[i].Annotation_ID = lists.annotation_ids[i]
                       /\ Rows[i].Multi_Token_Annotation = lists.multi_token_annotation[i]

\* an annotation of two tokens and an annotation of one token
C28_Witness ==
    /\ Done
    /\ \E i, j, k \in RowIds :
        /\ i < j
        /\ Rows[i].Annotation_ID # "none"
        /\ Rows[j].Annotation_ID = Rows[i].Annotation_ID
        /\ Rows[k].Annotation_ID \notin {"none", Rows[i].Annotation_ID}
        /\ Rows[i].Multi_Token_Annotation = 2
        /\ Rows[k].Multi_Token_Annotation = 1

(* ======================= properties of the analyzer ==================== *)
Loaded == loaded.state # "pending"

\* entry i of the list cannot be loaded: it is no string, names no file, or
\* names a file that lacks a column, has no row, or has a foreign tag
Absent(i) == tsv_filepath_list[i].is_str /\ ~exists(tsv_filepath_list[i])
Malformed(i) ==
    \/ ~tsv_filepath_list[i].is_str
    \/ /\ exists(tsv_filepath_list[i])
       /\ LET df == tsv_files[tsv_filepath_list[i].value]
          IN  \/ df.columns # canspin_annotation_tsv_columns
              \/ df.rows = <<>>
              \/ \E k \in 1..Len(df.rows) :
                     df.rows[k].Tag # O /\ df.rows[k].Tag[2] \notin selected_classes
Paths == 1..Len(tsv_filepath_list)

\* the outcome named by the claim, whether the message names a file or not:
\* a table exactly for a non-empty list of loadable files, holding all their
\* rows in order; a not-found or a validation failure otherwise
C22_Outcome ==
    Loaded =>
        /\ loaded.state = "returned" <=>
               (Paths # {} /\ \A i \in Paths : ~Absent(i) /\ ~Malformed(i))
        /\ loaded.state = "returned" => loaded.value = concat(tsv_filepath_list)
        /\ loaded.state = "raised" =>
               /\ loaded.exception \in {"ValueError", "FileNotFoundError"}
               /\ loaded.exception = "FileNotFoundError" => \E i \in Paths : Absent(i)
               /\ (\A i \in Paths : ~Absent(i)) => loaded.exception = "ValueError"

\* C22: _load_tsv_files returns a table only for a non-empty list of loadable
\* files and raises otherwise; a validation failure raised for a file names
\* that file.
C22_LoadContract ==
    /\ C22_Outcome
    /\ (/\ Loaded /\ loaded.state = "raised" /\ loaded.exception = "ValueError"
        /\ Paths # {} /\ \A i \in Paths : tsv_filepath_list[i].is_str) =>
           \E i \in Paths : Malformed(i) /\ tsv_filepath_list[i].value \in Range(loaded.message)


(* ---------------------- statistics of the corpus ---------------------- *)
Activated == activated_calculations(settings.calculations)
ByClass ==
    { "amount_of_annotations_by_class", "amount_of_annotated_token_by_class",
      "word_lists_by_class" }

\* the calculation was run to its end, or was left by an exception
Completed(calculation) == calculation \in Range(calculated)
Aborted(calculation) ==
    /\ outcome \notin {"pending", "returned"}
    /\ Activated[Len(calculated) + 1] = calculation

\* the files a calculation goes through
Processed ==
    IF settings.custom_grouping # <<>>
    THEN UNION { files_of_group(settings.custom_grouping[g]) :
                   g \in 1..Len(settings.custom_grouping) }
    ELSE file_tuples(tsv_annotations)

\* the language or the class system of the file cannot be determined
Unresolved(ft) ==
    class_system_of(ft[1], ft[2]).status \in {"language", "class system", "IndexError"}

\* the entry of a file under the default grouping
EntryOf(calculation, ft) == result[calculation][ft[1]][corpus_of(ft[2])][ft[2]]

\* C23: a file whose language or class vocabulary cannot be resolved does not
\* abort a by-class calculation: the condition is logged and the file's
\* partial counts are emitted with a mark that they are incomplete (anything
\* that sets the entry apart from the bare counts of the file).
C23_UnresolvedFileIsSoft ==
    \A calculation \in ByClass : \A ft \in Processed :
        (Unresolved(ft) /\ (Completed(calculation) \/ Aborted(calculation))) =>
            /\ Completed(calculation)
            /\ \E m \in logged : /\ m.calculation = calculation
                                 /\ m.schema = ft[1] /\ m.filename = ft[2]
            /\ settings.custom_grouping = <<>> =>
                   EntryOf(calculation, ft)
                       # file_count(calculation, tsv_annotations[ft[1]][ft[2]])


Amounts ==
    { "amount_of_annotations", "amount_of_annotations_by_class", "amount_of_token",
      "amount_of_annotated_token", "amount_of_annotated_token_by_class" }

\* the sum of the numbers f[k], k in S
RECURSIVE SumInt(_, _)
SumInt(f, S) ==
    IF S = {} THEN 0
    ELSE LET k == CHOOSE k \in S : TRUE IN f[k] + SumInt(f, S \ {k})

\* the sum of the values f[k], k in S: numbers, or counts by class
SumOf(f, S, calculation) ==
    IF depth_of(calculation) = 0 THEN SumInt(f, S)
    ELSE [ classname \in UNION { DOMAIN f[k] : k \in S } |->
             LET having == { k \in S : classname \in DOMAIN f[k] }
             IN  SumInt([ k \in having |-> f[k][classname] ], having) ]

Members(node) == DOMAIN node \ {"TOTAL"}

\* the TOTAL of a dict of files is the sum of its files, and these are
\* exactly the given files with their own counts
FilesSummedUp(node, schema, filenames, calculation) ==
    /\ Members(node) = filenames
    /\ \A filename \in filenames :
           node[filename] = file_summary(calculation, schema, filename)
    /\ node["TOTAL"] = SumOf(node, Members(node), calculation)

\* the TOTAL of a dict of corpora, groups or subgroups is the sum of their TOTALs
TotalsSummedUp(node, calculation) ==
    node["TOTAL"] =
        SumOf([ k \in Members(node) |-> node[k]["TOTAL"] ], Members(node), calculation)

\* the files of the schema in a list of (schema, filename)
FilesIn(list, schema) == { ft[2] : ft \in { x \in Range(list) : x[1] = schema } }

GroupNamed(name) ==
    settings.custom_grouping[CHOOSE g \in 1..Len(settings.custom_grouping) :
                                 settings.custom_grouping[g].name = name]
SubgroupNamed(group, name) ==
    group.subgroups[CHOOSE k \in 1..Len(group.subgroups) : group.subgroups[k].name = name]

\* C25: in every amount statistic each corpus, group or subgroup TOTAL is the
\* sum of its files, the TOTAL of a group of subgroups the sum of their
\* TOTALs, each schema TOTAL the sum of the TOTALs of its corpora or groups,
\* and each group or subgroup holds every file listed in it with its own count.
C25_Totals ==
    \A calculation \in Amounts \cap Range(calculated) :
        \A schema \in DOMAIN result[calculation] :
            LET by_schema == result[calculation][schema]
            IN  /\ TotalsSummedUp(by_schema, calculation)
                /\ \A name \in Members(by_schema) :
                       IF settings.custom_grouping = <<>>
                       THEN FilesSummedUp(by_schema[name], schema,
                                { f \in DOMAIN tsv_annotations[schema] : corpus_of(f) = name },
                                calculation)
                       ELSE IF GroupNamed(name).is_dict
                       THEN /\ TotalsSummedUp(by_schema[name], calculation)
                            /\ \A subgroup \in Members(by_schema[name]) :
                                   FilesSummedUp(by_schema[name][subgroup], schema,
                                       FilesIn(SubgroupNamed(GroupNamed(name), subgroup).files, schema),
                                       calculation)
                       ELSE FilesSummedUp(by_schema[name], schema,
                                FilesIn(GroupNamed(name).files, schema), calculation)

\* all five amounts were calculated with a group of two subgroups that share
\* a file, and with corpora of one schema
C25_Witness ==
    /\ outcome = "returned"
    /\ Amounts \subseteq Range(calculated)
    /\ \E g \in 1..Len(settings.custom_grouping) :
           /\ settings.custom_grouping[g].is_dict
           /\ Cardinality(Members(result["amount_of_token"]["cs1"]
                                      [settings.custom_grouping[g].name])) = 2
    /\ result["amount_of_annotations"]["cs1"]["TOTAL"] > 2


\* whenever a result is returned, its top-level entries are the activated
\* calculations, and none when no tsv data is loaded
C26_EntriesWhenReturned ==
    outcome = "returned" =>
        DOMAIN result = IF tsv_annotations_has_data THEN Range(Activated) ELSE {}

\* C26: with tsv data loaded get_corpus_annotation_statistics returns, for
\* every choice of activated calculations, a dict with exactly one entry per
\* activated calculation; with no tsv data loaded it returns an empty dict. It
\* is never left by an exception instead.
C26_OneEntryPerCalculation ==
    /\ C26_EntriesWhenReturned
    /\ outcome \in {"pending", "returned"}



\* the ratios as get_ratios computes them from the results of all activated
\* amount calculations: those of the global result that is returned
RatiosOfAllActivatedAmounts == get_ratios(result).value

\* ratios stands behind every amount calculation in settings['calculations']
RatiosLast ==
    \A i, j \in 1..Len(settings.calculations) :
        (settings.calculations[i].name = "ratios"
            /\ settings.calculations[j].name \in Amounts) => j < i

\* C30: when get_corpus_annotation_statistics returns with ratios activated,
\* the entry of ratios is empty only if no amount calculation is activated,
\* and with an amount calculation activated it holds the ratios computed from
\* the results of all activated amount calculations, whatever the order of
\* settings['calculations'].
C30_RatiosWhateverTheOrder ==
    (outcome = "returned" /\ Completed("ratios")) =>
        /\ (DOMAIN result["ratios"] = {}) <=> (Amounts \cap Range(Activated) = {})
        /\ (Amounts \cap Range(Activated) # {} /\ settings.custom_grouping = <<>>) =>
               result["ratios"] = RatiosOfAllActivatedAmounts

\* the same with ratios standing behind the amount calculations
C30_RatiosInDefaultOrder == RatiosLast => C30_RatiosWhateverTheOrder

(* ------------- the written table as read by the statistics ------------ *)
\* C29: in the table written by create_annotated_token_tsv the conditions
\* Tag = O, Annotation_ID = none and Multi_Token_Annotation = 0 hold of the
\* same rows, so amount_of_annotated_token of the table (its rows with
\* Multi_Token_Annotation > 0) is the number of its rows with a B- or I- tag,
\* the sum over the classes of amount_of_annotated_token_by_class.
C29_UntaggedRows ==
    Done =>
        /\ \A i \in RowIds :
               /\ (Rows[i].Tag = O) <=> (Rows[i].Annotation_ID = "none")
               /\ (Rows[i].Tag = O) <=> (Rows[i].Multi_Token_Annotation = 0)
        /\ LET by_class == file_count("amount_of_annotated_token_by_class", Rows)
           IN  /\ file_count("amount_of_annotated_token", Rows)
                      = SumInt(by_class, DOMAIN by_class)
               /\ SumInt(by_class, DOMAIN by_class)
                      = Cardinality({ i \in RowIds : Rows[i].Tag[1] \in {"B-", "I-"} })

\* an annotation over a line break: its tokens tagged B- and I-, the line
\* break between them untagged
C29_Witness ==
    /\ Done
    /\ \E i, j, k \in RowIds :
        /\ i < j /\ j < k
        /\ Rows[i].Tag[1] = "B-"
        /\ IsLineBreak(j)
        /\ Rows[k].Tag[1] = "I-"
        /\ Rows[k].Annotation_ID = Rows[i].Annotation_ID

====
